---------------------------- MODULE Spec2Model ----------------------------
(***************************************************************************)
(* Model of src/app.py (kyo563/archivelogs): the duration parser, the      *)
(* record-row classifier and its eligibility filter, and the channel       *)
(* status aggregator with its two rolling windows.                         *)
(*                                                                         *)
(* Text is modelled as a sequence of one-character strings, so that the    *)
(* regular expression of parse_iso8601_duration can be run character by    *)
(* character.  Floats produced by round(x, n) are modelled as the integer  *)
(* x * 10^n (a fixed-point value with n decimal places).                   *)
(***************************************************************************)
EXTENDS Integers, Sequences, FiniteSets, TLC

VARIABLES
    duration,       \* parse_iso8601_duration: the argument
    parsed,         \* parse_iso8601_duration: <<>> before the call, <<n>> once it returned n
    videos,         \* the video catalogue of the data source: video id -> videos.list item
    sheetRecord,    \* the data rows of the Record worksheet (below the header)
    record_items,   \* the items fetched by the last Record handler (items / item)
    ui,             \* the messages the last handler reported to the operator
    chan,           \* the channel of the data source: what channels.list knows of it
    playlists,      \* the playlists of the channel, in the order the source lists them
    status,         \* compute_channel_status: <<>> for None, <<snapshot>> otherwise
    stats_10,       \* compute_channel_status: the local stats_10 of the last call
    stats_30,       \* compute_channel_status: the local stats_30 of the last call
    playlists_meta, \* get_playlists_meta: the list returned by the last call
    requests,       \* the requests the last operation sent to the data source, in order
    uploads,        \* the uploads playlist of the channel: video ids, newest first
    sheetStatus,    \* the data rows of the Status worksheet (below the header)
    sheetSearchTarget,  \* the data rows of the search-target worksheet
    video_ids,      \* search_video_ids_published_after: the list returned by the last call
    counts,         \* get_videos_stats / fetch_comment_counts: the dictionary returned by the last call
    batch_limit,    \* the number input "今回更新する最大件数" of the Status tab
    asked,          \* the arguments of the last call of a collector, and what the source did
    updated_count,  \* refresh_comments_btn: <<>>, or <<n>> once refresh_record_comment_counts returned n
    quota_usage     \* st.session_state["quota_usage"] where the counter is followed, <<>> elsewhere

vars == <<duration, parsed, videos, sheetRecord, record_items, ui,
          chan, playlists, status, stats_10, stats_30, playlists_meta,
          requests, uploads, sheetStatus, sheetSearchTarget, video_ids, counts,
          batch_limit, asked, updated_count, quota_usage>>

statusVars == <<chan, playlists, status, stats_10, stats_30, playlists_meta>>

sheetVars == <<sheetStatus, sheetSearchTarget, batch_limit>>

sessionVars == <<updated_count, quota_usage>>

collectorVars == <<video_ids, counts, asked, sessionVars>>

(***************************************************************************)
(* Values shared by all parts of the model.                                *)
(***************************************************************************)
NoneText == <<"None">>  \* Python None where a text is expected (no text has this shape)

(***************************************************************************)
(* Bounds.                                                                 *)
(***************************************************************************)
MaxLen == 6             \* longest duration text enumerated for the parser

\* The characters from which the parser's inputs are enumerated.
Chars == {"P", "T", "H", "M", "S", "D", "7", "\n"}

\* All texts of at most n characters.
Strings(n) == UNION {[1..k -> Chars] : k \in 0..n}

(***************************************************************************)
(* parse_iso8601_duration (src/app.py 394-413)                             *)
(***************************************************************************)
Digits == <<"0", "1", "2", "3", "4", "5", "6", "7", "8", "9">>

\* \d of the pattern (ASCII digits).
IsDigit(c) == \E i \in 1..10 : Digits[i] = c

\* int() of one digit.
DigitVal(c) == (CHOOSE i \in 1..10 : Digits[i] = c) - 1

\* The first position at or after p that does not hold a digit: where the
\* greedy \d+ started at p stops.
RECURSIVE DigitsEnd(_, _)
DigitsEnd(s, p) ==
    IF p <= Len(s) /\ IsDigit(s[p]) THEN DigitsEnd(s, p + 1) ELSE p

\* int(m.group(k)) for the digits s[from..to].
RECURSIVE ToInt(_, _, _)
ToInt(s, from, to) ==
    IF to < from THEN 0
    ELSE ToInt(s, from, to - 1) * 10 + DigitVal(s[to])

\* One optional group (?:(\d+)U)? tried at position p.  The digits are
\* followed by a letter, so only the longest run of digits can be followed
\* by the unit; when the group does not match, the pattern goes on at p with
\* the group unset (int(None or 0) = 0).
Component(s, p, unit) ==
    LET e == DigitsEnd(s, p) IN
    IF e > p /\ e <= Len(s) /\ s[e] = unit
    THEN [val |-> ToInt(s, p, e - 1), next |-> e + 1]
    ELSE [val |-> 0, next |-> p]

\* The $ of the pattern as Python's re evaluates it: the end of the text, or
\* just before a newline that is the last character of the text.
EndAnchor(s, p) ==
    \/ p = Len(s) + 1
    \/ p = Len(s) /\ s[p] = "\n"

parse_iso8601_duration(d) ==
    IF d = NoneText \/ d = <<>> THEN 0
    ELSE IF ~(Len(d) >= 2 /\ d[1] = "P" /\ d[2] = "T") THEN 0
    ELSE LET h == Component(d, 3, "H")
             m == Component(d, h.next, "M")
             s == Component(d, m.next, "S")
         IN  IF EndAnchor(d, s.next)
             THEN h.val * 3600 + m.val * 60 + s.val
             ELSE 0

(***************************************************************************)
(* Specification SpecDuration: the parser applied to every bounded text.   *)
(***************************************************************************)
InitDuration ==
    /\ duration \in Strings(MaxLen) \cup {NoneText}
    /\ parsed = <<>>
    /\ videos = <<>>
    /\ sheetRecord = <<>>
    /\ record_items = <<>>
    /\ ui = <<>>
    /\ chan = <<>>
    /\ playlists = <<>>
    /\ status = <<>>
    /\ stats_10 = <<>>
    /\ stats_30 = <<>>
    /\ playlists_meta = <<>>
    /\ requests = <<>>
    /\ uploads = <<>>
    /\ sheetStatus = <<>>
    /\ sheetSearchTarget = <<>>
    /\ batch_limit = <<>>
    /\ video_ids = <<>>
    /\ counts = <<>>
    /\ asked = <<>>
    /\ updated_count = <<>>
    /\ quota_usage = <<>>

ParseDuration ==
    /\ parsed = <<>>
    /\ parsed' = <<parse_iso8601_duration(duration)>>
    /\ UNCHANGED <<duration, videos, sheetRecord, record_items, ui, statusVars,
                   requests, uploads, sheetVars, collectorVars>>

NextDuration == ParseDuration

SpecDuration == InitDuration /\ [][NextDuration]_vars

(***************************************************************************)
(* The video data source as the Record handlers see it.                    *)
(***************************************************************************)
VideoIds == {"v1", "v2"}

\* The one channel of the catalogue and its uploads playlist.
ChannelIds == {"UC1"}
UploadsOf(channel_id) == uploads

\* Instants are whole days; Now is the day of the run.
Now == 100

\* snippet.publishedAt of each video in the Record catalogue, as an instant
\* (ISO texts of one format compare like the instants they denote).
PublishedAtOf(id) == IF id = "v1" THEN 2 ELSE 1

\* snippet.title of each video.
TitleOf(id) == IF id = "v1" THEN <<"a", "\n", "\"", "b">> ELSE <<" ", "c">>

MissingKey == <<"Missing">>     \* the key is absent from the dictionary

\* contentDetails.duration values of the catalogue: 3 s, 61 s, 62 s, 1 h, a
\* text outside the grammar, and no duration at all.
DurationSamples ==
    { <<"P", "T", "3", "S">>,
      <<"P", "T", "1", "M", "1", "S">>,
      <<"P", "T", "1", "M", "2", "S">>,
      <<"P", "T", "1", "H">>,
      <<"P", "1", "D">>,
      MissingKey }

\* liveStreamingDetails of a video: the set of the keys it carries.
LiveDetailSamples ==
    { {},
      {"scheduledStartTime"},
      {"actualStartTime"},
      {"actualStartTime", "actualEndTime"} }

VideoItem(id, privacy, upload, lbc, live, dur, published, views) ==
    [ id |-> id,
      title |-> TitleOf(id),
      publishedAt |-> published,
      liveBroadcastContent |-> lbc,
      privacyStatus |-> privacy,
      uploadStatus |-> upload,
      duration |-> dur,
      liveStreamingDetails |-> live,
      viewCount |-> views,
      likeCount |-> 1,
      commentCount |-> IF id = "v1" THEN <<4>> ELSE <<>> ]

\* The catalogue holds every combination of the fields for "v1"; the second
\* video of the channel, "v2", lasts 62 s and is an ordinary upload or an
\* ended broadcast, with every combination of the three status fields.
VideoItemsOf(id) ==
    { VideoItem(id, privacy, upload, lbc, live, dur, PublishedAtOf(id), 10) :
        privacy \in {"public", "private"},
        upload \in {"processed", "uploaded"},
        lbc \in {"none", "live", "upcoming"},
        live \in IF id = "v1" THEN LiveDetailSamples
                 ELSE {{}, {"actualStartTime", "actualEndTime"}},
        dur \in IF id = "v1" THEN DurationSamples
                ELSE {<<"P", "T", "1", "M", "2", "S">>} }

\* A request as the data source receives it, with what came back: the
\* method, its part, its id / channelId / playlistId / q argument,
\* maxResults, pageToken (0: none), publishedAfter (<<>>: none), and of the
\* response whether it raised, the number of its items and its
\* nextPageToken (0: none).
Request(method, part, id, maxResults, pageToken, publishedAfter, outcome, returned, nextPageToken) ==
    [ method |-> method, part |-> part, id |-> id, maxResults |-> maxResults,
      pageToken |-> pageToken, publishedAfter |-> publishedAfter,
      outcome |-> outcome, returned |-> returned, nextPageToken |-> nextPageToken ]

\* The part asked of videos.list by the two Record fetchers (lines 570, 611).
FullVideoPart == "snippet,contentDetails,statistics,status,liveStreamingDetails"

\* youtube.videos().list(id=ids): the items of the requested videos that
\* exist, in the order requested; or the request raises.
VideosList(ids, raises) ==
    IF raises THEN [raised |-> TRUE, items |-> <<>>]
    ELSE [ raised |-> FALSE,
           items |-> LET known == SelectSeq(ids, LAMBDA id : id \in DOMAIN videos)
                     IN  [k \in 1..Len(known) |-> videos[known[k]]] ]

(***************************************************************************)
(* fetch_single_video_item (src/app.py 603-634)                            *)
(***************************************************************************)
\* The three checks of lines 627-632.
SingleFilter(it) ==
    /\ it.privacyStatus = "public"
    /\ it.uploadStatus = "processed"
    /\ it.liveBroadcastContent \notin {"live", "upcoming"}

\* Returns <<>> for None and <<it>> for the item.
fetch_single_video_item(video_id, raises) ==
    LET resp == VideosList(<<video_id>>, raises)
        sent == << Request("videos.list", FullVideoPart, <<video_id>>, 1, 0, <<>>,
                           IF resp.raised THEN "raise" ELSE "ok",
                           Len(resp.items), 0) >>
    IN
    IF resp.raised
    THEN [item |-> <<>>, warned |-> <<"warning:videos.list">>, requests |-> sent]
    ELSE IF resp.items = <<>>
    THEN [item |-> <<>>, warned |-> <<>>, requests |-> sent]
    ELSE IF SingleFilter(resp.items[1])
         THEN [item |-> <<resp.items[1]>>, warned |-> <<>>, requests |-> sent]
         ELSE [item |-> <<>>, warned |-> <<>>, requests |-> sent]

(***************************************************************************)
(* fetch_channel_upload_items (src/app.py 502-600)                         *)
(***************************************************************************)
PageMax == 50       \* the page-size ceiling of the data source

Min(a, b) == IF a <= b THEN a ELSE b

\* youtube.channels().list(part="contentDetails"): the uploads playlist of
\* the channel.  outcome is what the source does with the request.
ChannelsListUploads(channel_id, outcome) ==
    IF outcome = "raise" THEN [raised |-> TRUE, uploads |-> <<>>, found |-> FALSE]
    ELSE IF outcome = "empty" \/ channel_id \notin ChannelIds
         THEN [raised |-> FALSE, uploads |-> <<>>, found |-> FALSE]
         ELSE [raised |-> FALSE, uploads |-> UploadsOf(channel_id), found |-> TRUE]

\* youtube.playlistItems().list(maxResults, pageToken): a page token is the
\* number of entries already served, 0 standing for "no token".  serve is
\* the number of entries the source puts on a page: <<>> for a source that
\* fills the page up to maxResults (and the ceiling PageMax), <<k>> for a
\* source that serves k entries, which can be less or more than asked for.
PlaylistItemsList(listing, maxResults, pageToken, serve) ==
    LET size == IF serve = <<>> THEN Min(maxResults, PageMax) ELSE serve[1]
        last == Min(Len(listing), pageToken + size)
    IN  [ items |-> SubSeq(listing, pageToken + 1, last),
          nextPageToken |-> IF last < Len(listing) THEN last ELSE 0 ]

\* CollectUploadIds asking for a full page whatever remains to be collected.
RECURSIVE CollectUploadIdsFullPages(_, _, _, _, _, _, _, _)
CollectUploadIdsFullPages(listing, max_results, ids_so_far, next_page, n, failAt, serve, sent) ==
    LET remaining == max_results - Len(ids_so_far) IN
    IF remaining <= 0
    THEN [raised |-> FALSE, video_ids |-> ids_so_far, requests |-> sent]
    ELSE IF n = failAt
    THEN [ raised |-> TRUE, video_ids |-> ids_so_far,
           requests |-> Append(sent,
               Request("playlistItems.list", "contentDetails", <<"uploads">>, PageMax,
                       next_page, <<>>, "raise", 0, 0)) ]
    ELSE LET pl_resp == PlaylistItemsList(listing, PageMax, next_page, serve)
             ids == ids_so_far \o pl_resp.items
             log == Append(sent,
                        Request("playlistItems.list", "contentDetails", <<"uploads">>,
                                PageMax, next_page, <<>>, "ok",
                                Len(pl_resp.items), pl_resp.nextPageToken))
         IN  IF pl_resp.nextPageToken = 0
             THEN [raised |-> FALSE, video_ids |-> ids, requests |-> log]
             ELSE CollectUploadIdsFullPages(listing, max_results, ids,
                                   pl_resp.nextPageToken, n + 1, failAt, serve, log)

\* The while loop of lines 539-558; request number n raises when n = failAt.
\* sent is the list of the requests made so far.
RECURSIVE CollectUploadIds(_, _, _, _, _, _, _, _)
CollectUploadIds(listing, max_results, ids_so_far, next_page, n, failAt, serve, sent) ==
    LET remaining == max_results - Len(ids_so_far) IN
    IF remaining <= 0
    THEN [raised |-> FALSE, video_ids |-> ids_so_far, requests |-> sent]
    ELSE IF n = failAt
    THEN [ raised |-> TRUE, video_ids |-> ids_so_far,
           requests |-> Append(sent,
               Request("playlistItems.list", "contentDetails", <<"uploads">>, Min(PageMax, remaining),
                       next_page, <<>>, "raise", 0, 0)) ]
    ELSE LET pl_resp == PlaylistItemsList(listing, Min(PageMax, remaining),
                                          next_page, serve)
             ids == ids_so_far \o pl_resp.items
             log == Append(sent,
                        Request("playlistItems.list", "contentDetails", <<"uploads">>,
                                Min(PageMax, remaining), next_page, <<>>, "ok",
                                Len(pl_resp.items), pl_resp.nextPageToken))
         IN  IF pl_resp.nextPageToken = 0
             THEN [raised |-> FALSE, video_ids |-> ids, requests |-> log]
             ELSE CollectUploadIds(listing, max_results, ids,
                                   pl_resp.nextPageToken, n + 1, failAt, serve, log)

\* UploadsFilter without the check of line 590.
UploadsFilterNoLiveCheck(it) ==
    /\ it.privacyStatus = "public"
    /\ it.uploadStatus = "processed"

\* The three checks of lines 584-591.
UploadsFilter(it) ==
    /\ it.privacyStatus = "public"
    /\ it.uploadStatus = "processed"
    /\ it.liveBroadcastContent \notin {"live", "upcoming"}

\* filtered: the items of the response that pass the checks, in order.
FilterItems(items) == SelectSeq(items, UploadsFilter)

\* sorted(filtered, key=publishedAt): a stable ascending sort.  An item
\* comes after the items with a smaller key and after the items with the
\* same key that stood before it in the list.
ComesBefore(items, j, i) ==
    \/ items[j].publishedAt < items[i].publishedAt
    \/ items[j].publishedAt = items[i].publishedAt /\ j < i

SortByPublishedAt(items) ==
    [ p \in 1..Len(items) |->
        items[CHOOSE i \in 1..Len(items) :
                  Cardinality({j \in 1..Len(items) : ComesBefore(items, j, i)}) = p - 1] ]

\* api says what the source does with the requests of the call: channels
\* (channels.list), failAt and serve (playlistItems.list), videosRaise
\* (videos.list).  The result carries the returned list (items), the
\* warnings, the requests made, and the local video_ids as it stood when
\* the loop was left.
fetch_channel_upload_items(channel_id, max_results_arg, api) ==
    LET max_results == Min(max_results_arg, PageMax)
        ch == ChannelsListUploads(channel_id, api.channels)
        ch_sent == << Request("channels.list", "contentDetails", <<channel_id>>, 1, 0, <<>>,
                              IF ch.raised THEN "raise" ELSE "ok",
                              IF ch.found THEN 1 ELSE 0, 0) >>
    IN
    IF ch.raised
    THEN [ items |-> <<>>, warned |-> <<"warning:channels.list">>,
           requests |-> ch_sent, video_ids |-> <<>> ]
    ELSE IF ~ch.found
    THEN [ items |-> <<>>, warned |-> <<"warning:no uploads">>,
           requests |-> ch_sent, video_ids |-> <<>> ]
    ELSE
    LET coll == CollectUploadIds(ch.uploads, max_results, <<>>, 0, 1,
                                 api.failAt, api.serve, ch_sent) IN
    IF coll.raised
    THEN [ items |-> <<>>, warned |-> <<"warning:playlistItems.list">>,
           requests |-> coll.requests, video_ids |-> coll.video_ids ]
    ELSE IF coll.video_ids = <<>>
    THEN [ items |-> <<>>, warned |-> <<>>,
           requests |-> coll.requests, video_ids |-> <<>> ]
    ELSE
    LET v_resp == VideosList(coll.video_ids, api.videosRaise)
        sent == Append(coll.requests,
                    Request("videos.list", FullVideoPart, coll.video_ids, max_results, 0, <<>>,
                            IF v_resp.raised THEN "raise" ELSE "ok",
                            Len(v_resp.items), 0))
    IN
    IF v_resp.raised
    THEN [ items |-> <<>>, warned |-> <<"warning:videos.list">>,
           requests |-> sent, video_ids |-> coll.video_ids ]
    ELSE
    LET filtered_sorted == SortByPublishedAt(FilterItems(v_resp.items)) IN
    [ items |-> SubSeq(filtered_sorted, 1, Min(max_results, Len(filtered_sorted))),
      warned |-> <<>>,
      requests |-> sent, video_ids |-> coll.video_ids ]

(***************************************************************************)
(* The headers of the two sheets (src/app.py 39-87); a Status column is    *)
(* named as the comment of its header line names it.                       *)
(***************************************************************************)
RECORD_HEADER ==
    << "logged_at", "type", "title", "published_at", "duration_sec",
       "view_count", "like_count", "comment_count" >>

STATUS_HEADER ==
    << "logged_at", "channel_id", "channel_title", "subscriber_count",
       "video_count", "view_count", "channel_published_at", "months_active",
       "subs_per_month", "subs_per_video", "views_per_video", "views_per_sub",
       "subs_per_total_view", "playlists_per_video", "videos_per_month",
       "videos_per_subscriber",
       "top_playlist_1", "top_playlist_2", "top_playlist_3", "top_playlist_4",
       "top_playlist_5",
       "total_views_last10", "num_videos_last10", "top_title_last10",
       "top_views_last10", "top_share_last10", "avg_views_per_video_last10",
       "views_per_sub_last10",
       "total_views_last30", "num_videos_last30", "top_title_last30",
       "top_views_last30", "top_share_last30", "avg_views_per_video_last30",
       "views_per_sub_last30" >>

(***************************************************************************)
(* build_record_row_from_video_item (src/app.py 637-693)                   *)
(***************************************************************************)
ShortThreshold == 61

\* str.replace("\n", " ")
RECURSIVE ReplaceNewlines(_)
ReplaceNewlines(t) ==
    IF t = <<>> THEN <<>>
    ELSE <<IF Head(t) = "\n" THEN " " ELSE Head(t)>> \o ReplaceNewlines(Tail(t))

\* str.strip()
RECURSIVE Strip(_)
Strip(t) ==
    IF t = <<>> THEN <<>>
    ELSE IF Head(t) \in {" ", "\n"} THEN Strip(Tail(t))
    ELSE IF t[Len(t)] \in {" ", "\n"} THEN Strip(SubSeq(t, 1, Len(t) - 1))
    ELSE t

\* EscapeQuotes leaving the quotes as they are.
KeepQuotes(t) == t

\* str.replace('"', '""')
RECURSIVE EscapeQuotes(_)
EscapeQuotes(t) ==
    IF t = <<>> THEN <<>>
    ELSE (IF Head(t) = "\"" THEN <<"\"", "\"">> ELSE <<Head(t)>>)
         \o EscapeQuotes(Tail(t))

\* VideoType with the duration tested before the live details.
VideoTypeDurationFirst(live_details, duration_sec) ==
    IF duration_sec <= ShortThreshold THEN "short"
    ELSE IF live_details # {} THEN "live"
    ELSE "video"

\* VideoType with a strict comparison against the threshold.
VideoTypeStrictlyBelow(live_details, duration_sec) ==
    IF live_details # {} THEN "live"
    ELSE IF duration_sec < ShortThreshold THEN "short"
    ELSE "video"

\* Lines 652-656: the type of the row.
VideoType(live_details, duration_sec) ==
    IF live_details # {} THEN "live"
    ELSE IF duration_sec <= ShortThreshold THEN "short"
    ELSE "video"

LoggedAt == "now"   \* logged_at_str of the run

\* build_record_row_from_video_item with the like count before the view
\* count.
RecordRowLikesFirst(item, logged_at_str) ==
    LET duration_iso == IF item.duration = MissingKey
                        THEN <<"P", "T", "0", "S">> ELSE item.duration
        duration_sec == parse_iso8601_duration(duration_iso)
        vtype == VideoType(item.liveStreamingDetails, duration_sec)
        title_cell == [url |-> item.id,
                       text |-> EscapeQuotes(Strip(ReplaceNewlines(item.title)))]
    IN  << logged_at_str, vtype, title_cell, <<item.publishedAt>>,
           duration_sec, item.likeCount, item.viewCount, item.commentCount >>

\* The row is <<logged_at, type, title, published_at, duration_sec,
\* view_count, like_count, comment_count>>; the title cell is the HYPERLINK
\* formula, kept as its two arguments; published_at is the instant <<t>>;
\* comment_count is <<n>>, or <<>> for the empty cell.
build_record_row_from_video_item(item, logged_at_str) ==
    LET duration_iso == IF item.duration = MissingKey
                        THEN <<"P", "T", "0", "S">> ELSE item.duration
        duration_sec == parse_iso8601_duration(duration_iso)
        vtype == VideoType(item.liveStreamingDetails, duration_sec)
        title_raw == Strip(ReplaceNewlines(item.title))
        title_escaped == EscapeQuotes(title_raw)
        title_cell == [url |-> item.id, text |-> title_escaped]
    IN  << logged_at_str, vtype, title_cell, <<item.publishedAt>>,
           duration_sec, item.viewCount, item.likeCount, item.commentCount >>

\* append_rows putting the rows above those of the sheet.
InsertRowsOnTop(ws, rows) == rows \o ws

\* append_rows (lines 369-377)
append_rows(ws, rows) == ws \o rows

(***************************************************************************)
(* Identifier resolution (src/app.py 416-480).  The operator's inputs are  *)
(* a blank text, a bare identifier, and a text that is no identifier.      *)
(***************************************************************************)
VideoInputs == {"", "??", "youtu.be/", "v0", "v1", "v2"}
ChannelInputs == {"", "name", "channel/", "UC1"}

\* str.strip() of an input is "" exactly for the blank input.
Blank(input) == input = ""

\* "not x" for an Optional[str]: None and the empty text are both false.
Falsy(x) == x = <<>> \/ x = <<"">>

\* resolve_video_id: <<>> is None.  "v0" has the shape of a video id but
\* names no video of the catalogue; "youtu.be/" is a short URL with nothing
\* after the host, for which line 470 returns the empty text.
resolve_video_id(url_or_id) ==
    IF url_or_id = "" THEN <<>>
    ELSE IF url_or_id = "youtu.be/" THEN <<"">>
    ELSE IF url_or_id \in {"v0", "v1", "v2"} THEN <<url_or_id>>
    ELSE <<>>

\* The texts of the shape of a raw channel id (line 425).
RawChannelIds == {"UC1", "UC2"}

\* resolve_channel_id_simple answering with a channel when the search found
\* none.
ResolveChannelIdDefaulting(url_or_id, searchOutcome) ==
    LET sent == << Request("search.list", "id,snippet", <<url_or_id>>, 3, 0, <<>>,
                           IF searchOutcome = "raise" THEN "raise" ELSE "ok",
                           IF searchOutcome = "hit" THEN 1 ELSE 0, 0) >>
    IN
    IF url_or_id = "" THEN [channel_id |-> <<>>, requests |-> <<>>]
    ELSE IF url_or_id \in RawChannelIds
    THEN [channel_id |-> <<url_or_id>>, requests |-> <<>>]
    ELSE IF url_or_id = "channel/" THEN [channel_id |-> <<"">>, requests |-> <<>>]
    ELSE [channel_id |-> <<"UC1">>, requests |-> sent]

\* resolve_channel_id_simple: a raw channel id is returned as it is, a
\* "channel/" URL gives what follows "channel/" (nothing, for "channel/"),
\* any other non-blank text is looked up with search.list, which raises,
\* finds nothing, or finds a channel.
resolve_channel_id_simple(url_or_id, searchOutcome) ==
    LET sent == << Request("search.list", "id,snippet", <<url_or_id>>, 3, 0, <<>>,
                           IF searchOutcome = "raise" THEN "raise" ELSE "ok",
                           IF searchOutcome = "hit" THEN 1 ELSE 0, 0) >>
    IN
    IF url_or_id = "" THEN [channel_id |-> <<>>, requests |-> <<>>]
    ELSE IF url_or_id \in RawChannelIds
    THEN [channel_id |-> <<url_or_id>>, requests |-> <<>>]
    ELSE IF url_or_id = "channel/" THEN [channel_id |-> <<"">>, requests |-> <<>>]
    ELSE IF searchOutcome = "hit" THEN [channel_id |-> <<"UC1">>, requests |-> sent]
    ELSE [channel_id |-> <<>>, requests |-> sent]

(***************************************************************************)
(* What the data source does during one handler: every request succeeds,   *)
(* or exactly one kind of request fails.  search: what the channel search   *)
(* returns; channels: what channels.list returns; failAt: the number of    *)
(* the page request that raises (0: none); videosRaise: videos.list raises.*)
(***************************************************************************)
ApiOk ==
    [ search |-> "hit", channels |-> "ok", failAt |-> 0, serve |-> <<>>,
      videosRaise |-> FALSE ]

ApiBehaviours ==
    { ApiOk,
      [ApiOk EXCEPT !.search = "raise"],
      [ApiOk EXCEPT !.search = "empty"],
      [ApiOk EXCEPT !.channels = "raise"],
      [ApiOk EXCEPT !.channels = "empty"],
      [ApiOk EXCEPT !.failAt = 1],
      [ApiOk EXCEPT !.videosRaise = TRUE] }

(***************************************************************************)
(* The Record tab (src/app.py 1383-1428).                                  *)
(***************************************************************************)
MaxRecordRows == 2      \* rows the Record sheet may hold in the model

\* run_single_btn: "この動画だけ Record に追記"
RunSingleBtn(video_input, vRaises) ==
    IF Blank(video_input)
    THEN /\ ui' = <<"error:blank input">>
         /\ record_items' = <<>>
         /\ requests' = <<>>
         /\ UNCHANGED sheetRecord
    ELSE LET vid == resolve_video_id(video_input) IN
         IF Falsy(vid)
         THEN /\ ui' = <<"error:unresolved video">>
              /\ record_items' = <<>>
              /\ requests' = <<>>
              /\ UNCHANGED sheetRecord
         ELSE \E f \in {fetch_single_video_item(vid[1], vRaises)} :
              IF f.item = <<>>
              THEN /\ ui' = f.warned \o <<"error:video not available">>
                   /\ record_items' = <<>>
                   /\ requests' = f.requests
                   /\ UNCHANGED sheetRecord
              ELSE /\ Len(sheetRecord) + 1 <= MaxRecordRows
                   /\ record_items' = f.item
                   /\ requests' = f.requests
                   /\ sheetRecord' = append_rows(sheetRecord,
                          <<build_record_row_from_video_item(f.item[1], LoggedAt)>>)
                   /\ ui' = <<"success:single">>

\* run_recent_btn: "直近50件を Record に追記"
RunRecentBtn(channel_input, api) ==
    IF Blank(channel_input)
    THEN /\ ui' = <<"error:blank input">>
         /\ record_items' = <<>>
         /\ requests' = <<>>
         /\ UNCHANGED sheetRecord
    ELSE LET resolved == resolve_channel_id_simple(channel_input, api.search)
             channel_id == resolved.channel_id
         IN
         IF Falsy(channel_id)
         THEN /\ ui' = <<"error:unresolved channel">>
              /\ record_items' = <<>>
              /\ requests' = resolved.requests
              /\ UNCHANGED sheetRecord
         ELSE \E f \in {fetch_channel_upload_items(channel_id[1], 50, api)} :
              IF f.items = <<>>
              THEN /\ ui' = f.warned \o <<"warning:no videos">>
                   /\ record_items' = <<>>
                   /\ requests' = resolved.requests \o f.requests
                   /\ UNCHANGED sheetRecord
              ELSE /\ Len(sheetRecord) + Len(f.items) <= MaxRecordRows
                   /\ record_items' = f.items
                   /\ requests' = resolved.requests \o f.requests
                   /\ sheetRecord' = append_rows(sheetRecord,
                          [i \in 1..Len(f.items) |->
                              build_record_row_from_video_item(f.items[i], LoggedAt)])
                   /\ ui' = <<"success:recent">>

(***************************************************************************)
(* Specification SpecRecord: the Record tab over every catalogue.          *)
(***************************************************************************)
InitRecord ==
    /\ videos \in {w \in [VideoIds -> UNION {VideoItemsOf(id) : id \in VideoIds}] :
                      \A id \in VideoIds : w[id].id = id}
    /\ sheetRecord = <<>>
    /\ record_items = <<>>
    /\ ui = <<>>
    /\ duration = <<>>
    /\ parsed = <<>>
    /\ chan = <<>>
    /\ playlists = <<>>
    /\ status = <<>>
    /\ stats_10 = <<>>
    /\ stats_30 = <<>>
    /\ playlists_meta = <<>>
    /\ requests = <<>>
    /\ uploads = <<"v1", "v2">>
    /\ sheetStatus = <<>>
    /\ sheetSearchTarget = <<>>
    /\ batch_limit = <<>>
    /\ video_ids = <<>>
    /\ counts = <<>>
    /\ asked = <<>>
    /\ updated_count = <<>>
    /\ quota_usage = <<>>

SingleStep ==
    /\ \E video_input \in VideoInputs, vRaises \in BOOLEAN :
           RunSingleBtn(video_input, vRaises)
    /\ UNCHANGED <<videos, duration, parsed, statusVars, uploads, sheetVars,
                   collectorVars>>

RecentStep ==
    /\ \E channel_input \in ChannelInputs, api \in ApiBehaviours :
           RunRecentBtn(channel_input, api)
    /\ UNCHANGED <<videos, duration, parsed, statusVars, uploads, sheetVars,
                   collectorVars>>

NextRecord == SingleStep \/ RecentStep

SpecRecord == InitRecord /\ [][NextRecord]_vars

(***************************************************************************)
(* Numbers.  round(x, n) is kept as the integer x * 10^n.  Python rounds   *)
(* the binary float to the nearest n-place decimal, ties of exactly        *)
(* representable values going to the even neighbour.                       *)
(***************************************************************************)
Pow10(places) ==
    CASE places = 2 -> 100
      [] places = 4 -> 10000
      [] places = 5 -> 100000

\* round(num / den, places) for den > 0 and num >= 0.
RoundDiv(num, den, places) ==
    LET n == num * Pow10(places)
        q == n \div den
        r == n % den
    IN  IF 2 * r < den THEN q
        ELSE IF 2 * r > den THEN q + 1
        ELSE IF q % 2 = 0 THEN q ELSE q + 1

DivError == -1      \* the division raised ZeroDivisionError

\* round(num / den, places) as Python evaluates it.
PyDivRound(num, den, places) ==
    IF den = 0 THEN DivError ELSE RoundDiv(num, den, places)

\* GuardedRatio without its guard.
UnguardedRatio(num, den, places) == PyDivRound(num, den, places)

\* The pattern "round(num / den, places) if den > 0 else 0.0" of lines
\* 952-966 and 981-999.
GuardedRatio(num, den, places) ==
    IF den > 0 THEN PyDivRound(num, den, places) ELSE 0

\* The pattern "round(num / months_active, 2) if months_active is not None
\* and months_active > 0 else 0.0" of lines 947-951 and 961-965;
\* months_active is <<>> for None and <<m * 100>> otherwise.
MonthlyRatio(num, months_active) ==
    IF months_active # <<>> /\ months_active[1] > 0
    THEN PyDivRound(num * 100, months_active[1], 2)
    ELSE 0

(***************************************************************************)
(* The data source as compute_channel_status sees it.                      *)
(***************************************************************************)
\* A page of at most PageMax entries of a listing, and the token of the next.
PageOf(listing, pageToken) ==
    LET last == Min(Len(listing), pageToken + PageMax) IN
    [ items |-> SubSeq(listing, pageToken + 1, last),
      nextPageToken |-> IF last < Len(listing) THEN last ELSE 0 ]

\* The orders in which the elements of a set can be listed.
RECURSIVE Orders(_)
Orders(S) ==
    IF S = {} THEN {<<>>}
    ELSE UNION { {<<x>> \o rest : rest \in Orders(S \ {x})} : x \in S }

\* search.list(channelId, publishedAfter = now - days, type = "video",
\* order = "date"): the public videos of the channel published in the window,
\* newest first.
SearchResults(days) ==
    LET inWindow == { id \in DOMAIN videos :
                         /\ videos[id].privacyStatus = "public"
                         /\ videos[id].publishedAt >= Now - days }
    IN  { hits \in Orders(inWindow) :
            \A i \in 1..(Len(hits) - 1) :
                videos[hits[i]].publishedAt >= videos[hits[i + 1]].publishedAt }

(***************************************************************************)
(* get_channel_basic (src/app.py 755-784)                                  *)
(***************************************************************************)
\* outcome is what channels.list does with the request: it raises, it
\* returns no item (the source knows no such channel), or it returns the
\* channel.  basic is <<>> for None.
get_channel_basic(channel_id, outcome) ==
    LET sent == << Request("channels.list", "snippet,statistics,contentDetails", <<channel_id>>, 1, 0, <<>>,
                           IF outcome = "raise" THEN "raise" ELSE "ok",
                           IF outcome = "ok" THEN 1 ELSE 0, 0) >>
    IN
    IF outcome = "raise" THEN [basic |-> <<>>, requests |-> sent]
    ELSE IF outcome = "empty" THEN [basic |-> <<>>, requests |-> sent]
    ELSE [ basic |-> << [ channelId |-> channel_id,
                          title |-> chan.title,
                          publishedAt |-> chan.publishedAt,
                          subscriberCount |-> chan.subscriberCount,
                          videoCount |-> chan.videoCount,
                          viewCount |-> chan.viewCount ] >>,
           requests |-> sent ]

(***************************************************************************)
(* get_playlists_meta (src/app.py 787-815)                                 *)
(***************************************************************************)
\* The while loop of lines 793-811; request number n raises when n = failAt,
\* and the except clause (lines 812-813) keeps what was collected and
\* reports nothing.  sent is the list of the requests made so far.
RECURSIVE CollectPlaylists(_, _, _, _, _, _, _)
CollectPlaylists(channel_id, listing, pls, next_page, n, failAt, sent) ==
    IF n = failAt
    THEN [ pls |-> pls, warned |-> <<>>,
           requests |-> Append(sent,
               Request("playlists.list", "snippet,contentDetails", <<channel_id>>, PageMax, next_page,
                       <<>>, "raise", 0, 0)) ]
    ELSE LET resp == PageOf(listing, next_page)
             acc == pls \o resp.items
             log == Append(sent,
                        Request("playlists.list", "snippet,contentDetails", <<channel_id>>, PageMax,
                                next_page, <<>>, "ok", Len(resp.items),
                                resp.nextPageToken))
         IN  IF resp.nextPageToken = 0
             THEN [pls |-> acc, warned |-> <<>>, requests |-> log]
             ELSE CollectPlaylists(channel_id, listing, acc, resp.nextPageToken,
                                   n + 1, failAt, log)

get_playlists_meta(channel_id, failAt) ==
    CollectPlaylists(channel_id, playlists, <<>>, 0, 1, failAt, <<>>)

(***************************************************************************)
(* search_video_ids_published_after (src/app.py 818-853)                   *)
(***************************************************************************)
\* The while loop of lines 832-849; hits is what the source lists for the
\* window.  Request number n raises when n = failAt; the except clause
\* (lines 850-851) warns and the ids collected so far are returned.  sent is
\* the list of the requests made so far.
RECURSIVE CollectSearchIds(_, _, _, _, _, _, _, _)
CollectSearchIds(channel_id, days, hits, ids_so_far, next_page, n, failAt, sent) ==
    IF n = failAt
    THEN [ video_ids |-> ids_so_far, warned |-> <<"warning:search.list">>,
           requests |-> Append(sent,
               Request("search.list", "id", <<channel_id>>, PageMax, next_page,
                       <<Now - days>>, "raise", 0, 0)) ]
    ELSE LET resp == PageOf(hits, next_page)
             acc == ids_so_far \o resp.items
             log == Append(sent,
                        Request("search.list", "id", <<channel_id>>, PageMax,
                                next_page, <<Now - days>>, "ok",
                                Len(resp.items), resp.nextPageToken))
         IN  IF resp.nextPageToken = 0
             THEN [video_ids |-> acc, warned |-> <<>>, requests |-> log]
             ELSE CollectSearchIds(channel_id, days, hits, acc,
                                   resp.nextPageToken, n + 1, failAt, log)

\* search_video_ids_published_after sending a failed request once more.
SearchVideoIdsRetrying(channel_id, days, hits, failAt) ==
    LET r == CollectSearchIds(channel_id, days, hits, <<>>, 0, 1, failAt, <<>>) IN
    IF r.warned # <<>>
    THEN [r EXCEPT !.requests = Append(r.requests, r.requests[Len(r.requests)])]
    ELSE r

search_video_ids_published_after(channel_id, days, hits, failAt) ==
    CollectSearchIds(channel_id, days, hits, <<>>, 0, 1, failAt, <<>>)

(***************************************************************************)
(* get_videos_stats (src/app.py 856-887).  The dictionary "out" is kept as *)
(* the sequence of its entries in insertion order.                         *)
(***************************************************************************)
\* out[vid] = {...}: a new key is added at the end, a known key keeps its
\* place and takes the new value.
DictPut(out, entry) ==
    IF \E k \in 1..Len(out) : out[k].id = entry.id
    THEN [k \in 1..Len(out) |-> IF out[k].id = entry.id THEN entry ELSE out[k]]
    ELSE Append(out, entry)

\* The for loop of lines 872-882 over the items of a response: the items
\* are put one by one in their order, the first half of them and then the
\* rest.
RECURSIVE PutItems(_, _)
PutItems(out, items) ==
    IF items = <<>> THEN out
    ELSE IF Len(items) = 1
    THEN DictPut(out, [ id |-> items[1].id,
                        title |-> items[1].title,
                        viewCount |-> items[1].viewCount,
                        likeCount |-> items[1].likeCount ])
    ELSE LET half == Len(items) \div 2 IN
         CHOOSE result \in
             { PutItems(first, SubSeq(items, half + 1, Len(items))) :
                   first \in {PutItems(out, SubSeq(items, 1, half))} } : TRUE

\* StatsChunks leaving the loop at the first chunk that raises.
RECURSIVE StatsChunksStopAtFailure(_, _, _, _)
StatsChunksStopAtFailure(ids, acc, c, failChunks) ==
    LET i == (c - 1) * PageMax IN
    IF i >= Len(ids) THEN acc
    ELSE LET chunk == SubSeq(ids, i + 1, Min(i + PageMax, Len(ids)))
             resp == VideosList(chunk, c \in failChunks)
             next == [ out |-> IF resp.raised THEN acc.out
                               ELSE PutItems(acc.out, resp.items),
                       warned |-> IF resp.raised
                                  THEN Append(acc.warned, "warning:videos.list")
                                  ELSE acc.warned,
                       requests |-> Append(acc.requests,
                           Request("videos.list", "snippet,statistics", chunk, PageMax, 0, <<>>,
                                   IF resp.raised THEN "raise" ELSE "ok",
                                   Len(resp.items), 0)) ]
         IN  IF resp.raised THEN next
             ELSE StatsChunksStopAtFailure(ids, next, c + 1, failChunks)

\* The for loop of lines 863-885 from chunk number c on; the chunks whose
\* number is in failChunks raise, are warned about and skipped.  acc carries
\* the dictionary, the warnings and the requests so far.
RECURSIVE StatsChunks(_, _, _, _)
StatsChunks(ids, acc, c, failChunks) ==
    LET i == (c - 1) * PageMax IN
    IF i >= Len(ids) THEN acc
    ELSE LET chunk == SubSeq(ids, i + 1, Min(i + PageMax, Len(ids)))
             resp == VideosList(chunk, c \in failChunks)
         IN  StatsChunks(ids,
                 [ out |-> IF resp.raised THEN acc.out
                           ELSE PutItems(acc.out, resp.items),
                   warned |-> IF resp.raised
                              THEN Append(acc.warned, "warning:videos.list")
                              ELSE acc.warned,
                   requests |-> Append(acc.requests,
                       Request("videos.list", "snippet,statistics", chunk, PageMax, 0, <<>>,
                               IF resp.raised THEN "raise" ELSE "ok",
                               Len(resp.items), 0)) ],
                 c + 1, failChunks)

get_videos_stats(ids, failChunks) ==
    IF ids = <<>> THEN [out |-> <<>>, warned |-> <<>>, requests |-> <<>>]
    ELSE StatsChunks(ids, [out |-> <<>>, warned |-> <<>>, requests |-> <<>>],
                     1, failChunks)

(***************************************************************************)
(* fetch_comment_counts (src/app.py 696-719).  The dictionary "result" is  *)
(* kept as the sequence of its entries in insertion order.                 *)
(***************************************************************************)
\* str(n) for a natural number n.
RECURSIVE Str(_)
Str(n) == IF n < 10 THEN <<Digits[n + 1]>> ELSE Append(Str(n \div 10), Digits[(n % 10) + 1])

\* result[vid] = str(raw) if raw is not None else "" (lines 713-718).
\* The items are put one by one in their order, the first half of them and
\* then the rest.
RECURSIVE PutCommentCounts(_, _)
PutCommentCounts(result, items) ==
    IF items = <<>> THEN result
    ELSE IF Len(items) = 1
    THEN DictPut(result, [ id |-> items[1].id,
                           commentCount |->
                               IF items[1].commentCount # <<>>
                               THEN Str(items[1].commentCount[1])
                               ELSE <<>> ])
    ELSE LET half == Len(items) \div 2 IN
         CHOOSE done \in
             { PutCommentCounts(first, SubSeq(items, half + 1, Len(items))) :
                   first \in {PutCommentCounts(result, SubSeq(items, 1, half))} } : TRUE

\* The for loop of lines 700-718 from chunk number c on; the chunks whose
\* number is in failChunks raise, are warned about and skipped.
RECURSIVE CommentChunks(_, _, _, _)
CommentChunks(ids, acc, c, failChunks) ==
    LET i == (c - 1) * PageMax IN
    IF i >= Len(ids) THEN acc
    ELSE LET chunk == SubSeq(ids, i + 1, Min(i + PageMax, Len(ids)))
             resp == VideosList(chunk, c \in failChunks)
         IN  CommentChunks(ids,
                 [ result |-> IF resp.raised THEN acc.result
                              ELSE PutCommentCounts(acc.result, resp.items),
                   warned |-> IF resp.raised
                              THEN Append(acc.warned, "warning:videos.list")
                              ELSE acc.warned,
                   requests |-> Append(acc.requests,
                       Request("videos.list", "statistics", chunk, Len(chunk), 0, <<>>,
                               IF resp.raised THEN "raise" ELSE "ok",
                               Len(resp.items), 0)) ],
                 c + 1, failChunks)

fetch_comment_counts(ids, failChunks) ==
    CommentChunks(ids, [result |-> <<>>, warned |-> <<>>, requests |-> <<>>],
                  1, failChunks)

(***************************************************************************)
(* refresh_record_comment_counts (src/app.py 722-748), with                *)
(* extract_video_id_from_title_cell (483-496) and update_cells_in_column   *)
(* (380-387).  A title cell of the Record sheet is a HYPERLINK formula     *)
(* [url, text] or a text typed by hand [plain]; row k of the data rows is  *)
(* row k + 1 of the worksheet.                                             *)
(***************************************************************************)
VideoIdLength == 11     \* the length of a raw video id (lines 477, 491)

\* str.replace('""', '"') as the sheet shows the text of a formula.
RECURSIVE UndoubleQuotes(_)
UndoubleQuotes(t) ==
    IF t = <<>> THEN <<>>
    ELSE IF Len(t) >= 2 /\ t[1] = "\"" /\ t[2] = "\""
         THEN <<"\"">> \o UndoubleQuotes(SubSeq(t, 3, Len(t)))
         ELSE <<Head(t)>> \o UndoubleQuotes(Tail(t))

\* ws.get_all_values(), for a title cell.  A text comes back as it is; a
\* formula comes back as the worksheet renders it for the read, which is
\* the text it displays or the formula itself.
ReadTitleCell(cell, render) ==
    IF "plain" \in DOMAIN cell THEN cell
    ELSE IF render = "formula" THEN cell
    ELSE [shown |-> UndoubleQuotes(cell.text)]

\* <<>> is None.  The pattern of line 490 finds the id in the URL of a
\* formula; any other text goes to resolve_video_id, which takes a displayed
\* title for an id when it has the length of one and neither "/" nor " ".
extract_video_id_from_title_cell(title_cell) ==
    IF "url" \in DOMAIN title_cell THEN <<title_cell.url>>
    ELSE IF "plain" \in DOMAIN title_cell THEN resolve_video_id(title_cell.plain)
    ELSE LET text == Strip(title_cell.shown) IN
         IF /\ Len(text) = VideoIdLength
            /\ \A i \in 1..Len(text) : text[i] \notin {"/", " "}
         THEN <<text>> ELSE <<>>

\* Lines 728-733: the rows whose title cell yields a video id, in order, as
\* <<k, video_id>>.
CommentTargets(rows, render) ==
    LET idOf(k) == extract_video_id_from_title_cell(ReadTitleCell(rows[k][3], render))
        hits == SelectSeq([k \in 1..Len(rows) |-> k], LAMBDA k : ~Falsy(idOf(k)))
    IN  [i \in 1..Len(hits) |-> <<hits[i], idOf(hits[i])[1]>>]

\* list(dict.fromkeys(ids)): the first occurrence of each id, in order.
UniqueInOrder(ids) ==
    LET firsts == SelectSeq([i \in 1..Len(ids) |-> i],
                            LAMBDA i : \A j \in 1..(i - 1) : ids[j] # ids[i])
    IN  [i \in 1..Len(firsts) |-> ids[firsts[i]]]

\* "video_id in counts" and counts[video_id].
HasCount(counted, video_id) == \E e \in 1..Len(counted) : counted[e].id = video_id
CountOf(counted, video_id) ==
    counted[CHOOSE e \in 1..Len(counted) : counted[e].id = video_id].commentCount

\* CommentUpdates with an empty value for a target without a count.
CommentUpdatesEveryTarget(targets, counted) ==
    [ i \in 1..Len(targets) |->
        <<targets[i][1], 8,
          IF HasCount(counted, targets[i][2]) THEN CountOf(counted, targets[i][2])
          ELSE <<>> >> ]

\* Lines 741-745: an update <<k, 8, value>> for each target with a count.
CommentUpdates(targets, counted) ==
    LET hits == SelectSeq(targets, LAMBDA target : HasCount(counted, target[2]))
    IN  [i \in 1..Len(hits) |-> <<hits[i][1], 8, CountOf(counted, hits[i][2])>>]

\* update_cells_in_column: each cell named by an update takes its value;
\* nothing is written when there is no update.
update_cells_in_column(ws, row_col_values) ==
    IF row_col_values = <<>> THEN ws
    ELSE [ k \in 1..Len(ws) |->
             [ c \in 1..Len(ws[k]) |->
                 IF \E u \in 1..Len(row_col_values) :
                        row_col_values[u][1] = k /\ row_col_values[u][2] = c
                 THEN row_col_values[
                          CHOOSE u \in 1..Len(row_col_values) :
                              /\ row_col_values[u][1] = k /\ row_col_values[u][2] = c
                              /\ \A w \in (u + 1)..Len(row_col_values) :
                                     ~(row_col_values[w][1] = k /\ row_col_values[w][2] = c)
                      ][3]
                 ELSE ws[k][c] ] ]

\* The result carries the sheet after the call, the returned number, the
\* warnings and the requests.
refresh_record_comment_counts(ws, render, failChunks) ==
    LET nothing == [ws |-> ws, updated |-> 0, warned |-> <<>>, requests |-> <<>>]
        targets == CommentTargets(ws, render)
        written(got) ==
            LET updates == CommentUpdates(targets, got.result) IN
            [ ws |-> update_cells_in_column(ws, updates),
              updated |-> Len(updates),
              warned |-> got.warned,
              requests |-> got.requests ]
    IN
    IF ws = <<>> THEN nothing
    ELSE IF targets = <<>> THEN nothing
    ELSE CHOOSE result \in
             { written(got) :
                 got \in { fetch_comment_counts(
                               UniqueInOrder([i \in 1..Len(targets) |-> targets[i][2]]),
                               failChunks) } } : TRUE

\* refresh_comments_btn: "Record の H列コメント数を更新".  get_record_worksheet
\* touches the header row only.
RefreshCommentsBtn(render, failChunks) ==
    \E r \in {refresh_record_comment_counts(sheetRecord, render, failChunks)} :
        /\ sheetRecord' = r.ws
        /\ updated_count' = <<r.updated>>
        /\ requests' = r.requests
        /\ ui' = r.warned \o <<"success:refresh">>
        /\ record_items' = <<>>
        /\ asked' = [ fn |-> "refresh_record_comment_counts", render |-> render,
                      failChunks |-> failChunks ]

(***************************************************************************)
(* compute_channel_status (src/app.py 890-1069)                            *)
(***************************************************************************)
TopPlaylists == 5   \* the number of playlist slots of a snapshot

\* InsertByItemCount putting a playlist before those of the same item count.
RECURSIVE InsertByItemCountTiesFirst(_, _)
InsertByItemCountTiesFirst(sorted, pl) ==
    IF sorted = <<>> THEN <<pl>>
    ELSE IF sorted[Len(sorted)].itemCount > pl.itemCount
         THEN Append(sorted, pl)
         ELSE Append(InsertByItemCountTiesFirst(SubSeq(sorted, 1, Len(sorted) - 1), pl),
                     sorted[Len(sorted)])

\* sorted(playlists_meta, key=itemCount, reverse=True): stable, so playlists
\* of equal item count keep the order of the source.
RECURSIVE InsertByItemCount(_, _)
InsertByItemCount(sorted, pl) ==
    IF sorted = <<>> THEN <<pl>>
    ELSE IF sorted[Len(sorted)].itemCount >= pl.itemCount
         THEN Append(sorted, pl)
         ELSE Append(InsertByItemCount(SubSeq(sorted, 1, Len(sorted) - 1), pl),
                     sorted[Len(sorted)])

RECURSIVE SortByItemCount(_)
SortByItemCount(pls) ==
    IF pls = <<>> THEN <<>>
    ELSE InsertByItemCount(SortByItemCount(SubSeq(pls, 1, Len(pls) - 1)),
                           pls[Len(pls)])

\* The entry appended by line 935; it has no playlistId.
PlaceholderPlaylist == [title |-> <<"-">>, itemCount |-> 0]

\* Lines 933-935.
Top5Playlists(playlists_sorted) ==
    [ i \in 1..TopPlaylists |->
        IF i <= Len(playlists_sorted) THEN playlists_sorted[i]
        ELSE PlaceholderPlaylist ]

\* Lines 937-944: the cell is "-" (count <<>>) or "title (n本)" (count <<n>>).
PlaylistCol(pl) ==
    LET title == Strip(ReplaceNewlines(pl.title)) IN
    IF title = <<"-">> /\ pl.itemCount = 0
    THEN [text |-> <<"-">>, count |-> <<>>]
    ELSE [text |-> title, count |-> <<pl.itemCount>>]

\* sum(v.get("viewCount", 0) for v in stats.values())
RECURSIVE SumViews(_)
SumViews(stats) ==
    IF stats = <<>> THEN 0
    ELSE Head(stats).viewCount + SumViews(Tail(stats))

\* TopIndex taking a later entry of equal view count.
RECURSIVE TopIndexLastMax(_, _, _)
TopIndexLastMax(stats, k, best) ==
    IF k > Len(stats) THEN best
    ELSE TopIndexLastMax(stats, k + 1,
            IF stats[k].viewCount >= stats[best].viewCount THEN k ELSE best)

\* max(stats.items(), key=viewCount) scanning from entry k with the best
\* entry so far: max keeps the first of the entries with the largest key.
RECURSIVE TopIndex(_, _, _)
TopIndex(stats, k, best) ==
    IF k > Len(stats) THEN best
    ELSE TopIndex(stats, k + 1,
            IF stats[k].viewCount > stats[best].viewCount THEN k ELSE best)

\* WindowSummary dividing by the number of videos without looking at it.
WindowSummaryUnguardedAverage(stats, subs) ==
    LET total_views == SumViews(stats)
        num_videos == Len(stats)
        top_info == stats[TopIndex(stats, 1, 1)]
    IN  [ total_views |-> total_views,
          num_videos |-> num_videos,
          top_title |-> IF num_videos > 0
                        THEN Strip(ReplaceNewlines(top_info.title)) ELSE <<>>,
          top_views |-> IF num_videos > 0 THEN top_info.viewCount ELSE 0,
          top_share |-> IF num_videos > 0
                        THEN GuardedRatio(top_info.viewCount, total_views, 4)
                        ELSE 0,
          avg_views_per_video |-> PyDivRound(total_views, num_videos, 2),
          views_per_sub |-> GuardedRatio(total_views, subs, 5) ]

\* Lines 971-999 (10 days) and 1004-1032 (30 days): the figures of a window.
WindowSummary(stats, subs) ==
    LET total_views == SumViews(stats)
        num_videos == Len(stats)
        top_info == stats[TopIndex(stats, 1, 1)]
    IN  [ total_views |-> total_views,
          num_videos |-> num_videos,
          top_title |-> IF num_videos > 0
                        THEN Strip(ReplaceNewlines(top_info.title)) ELSE <<>>,
          top_views |-> IF num_videos > 0 THEN top_info.viewCount ELSE 0,
          top_share |-> IF num_videos > 0
                        THEN GuardedRatio(top_info.viewCount, total_views, 4)
                        ELSE 0,
          avg_views_per_video |-> GuardedRatio(total_views, num_videos, 2),
          views_per_sub |-> GuardedRatio(total_views, subs, 5) ]

\* MonthsActive cutting the quotient off after two places.
MonthsActiveTruncated(published_at_raw) ==
    IF published_at_raw.kind = "date"
    THEN <<((Now - published_at_raw.instant) * 100) \div 30>>
    ELSE <<>>

\* Lines 901-919: months_active is <<>> for None, <<m * 100>> otherwise.
MonthsActive(published_at_raw) ==
    IF published_at_raw.kind = "date"
    THEN <<RoundDiv(Now - published_at_raw.instant, 30, 2)>>
    ELSE <<>>

\* Lines 969-970 and 1002-1003: the search of a window and the statistics
\* of what it found; each of the two calls is made once.
WindowQuery(channel_id, days, hits, searchFailAt, statsFail) ==
    CHOOSE query \in
        UNION { { [ out |-> got.out,
                    warned |-> found.warned \o got.warned,
                    requests |-> found.requests \o got.requests ] :
                    got \in {get_videos_stats(found.video_ids, statsFail)} } :
                found \in {search_video_ids_published_after(channel_id, days, hits,
                                                            searchFailAt)} } : TRUE

\* Lines 898-1069: the snapshot, from the basic info (basic), the playlists
\* (pl) and the two windows (q10, q30); sent is the request that brought
\* the basic info.
ChannelStatus(channel_id, basic, sent, pl, q10, q30) ==
    LET months_active == MonthsActive(basic.publishedAt)
        subs == basic.subscriberCount
        vids_total == basic.videoCount
        views_total == basic.viewCount
        playlist_count == Len(pl.pls)
        top5_playlists == Top5Playlists(SortByItemCount(pl.pls))
    IN
    [ status |-> <<
        [ data_date_str |-> Now,
          channel_id |-> channel_id,
          channel_title |-> basic.title,
          subs |-> subs,
          vids_total |-> vids_total,
          views_total |-> views_total,
          channel_published_str |->
              IF basic.publishedAt.kind = "date"
              THEN <<basic.publishedAt.instant>> ELSE <<>>,
          months_active |-> months_active,
          subs_per_month |-> MonthlyRatio(subs, months_active),
          subs_per_video |-> GuardedRatio(subs, vids_total, 2),
          views_per_video |-> GuardedRatio(views_total, vids_total, 2),
          views_per_sub |-> GuardedRatio(views_total, subs, 2),
          subs_per_total_view |-> GuardedRatio(subs, views_total, 5),
          playlist_count |-> playlist_count,
          playlists_per_video |-> GuardedRatio(playlist_count, vids_total, 5),
          videos_per_month |-> MonthlyRatio(vids_total, months_active),
          videos_per_subscriber |-> GuardedRatio(vids_total, subs, 5),
          top5_playlists |-> top5_playlists,
          playlist_cols |-> [i \in 1..TopPlaylists |-> PlaylistCol(top5_playlists[i])],
          last10 |-> WindowSummary(q10.out, subs),
          last30 |-> WindowSummary(q30.out, subs) ] >>,
      stats_10 |-> q10.out,
      stats_30 |-> q30.out,
      playlists_meta |-> pl.pls,
      warned |-> pl.warned \o q10.warned \o q30.warned,
      requests |-> sent \o pl.requests \o q10.requests \o q30.requests ]

\* api says which requests of the call fail.  The result carries the returned
\* value (status), the locals playlists_meta, stats_10 and stats_30, the
\* warnings and the requests made.  Without basic info nothing else is asked
\* for (lines 894-896); otherwise the playlists, the 10-day window and the
\* 30-day window are asked for in this order, each once.
compute_channel_status(channel_id, api, hits10, hits30) ==
    LET got == get_channel_basic(channel_id, api.basic) IN
    IF got.basic = <<>>
    THEN [ status |-> <<>>, stats_10 |-> <<>>, stats_30 |-> <<>>,
           playlists_meta |-> <<>>, warned |-> <<>>, requests |-> got.requests ]
    ELSE CHOOSE result \in
             { ChannelStatus(channel_id, got.basic[1], got.requests, pl, q10, q30) :
                 pl \in {get_playlists_meta(channel_id, api.playlistsFailAt)},
                 q10 \in {WindowQuery(channel_id, 10, hits10, api.search10FailAt,
                                      api.stats10Fail)},
                 q30 \in {WindowQuery(channel_id, 30, hits30, api.search30FailAt,
                                      api.stats30Fail)} } : TRUE

(***************************************************************************)
(* Specification SpecStatus: compute_channel_status over every channel,    *)
(* catalogue and failure of the data source.                               *)
(***************************************************************************)
\* What channels.list knows of the channel.
ChannelSamples ==
    [ title : {<<"C", "\n", "h">>},
      publishedAt : { [kind |-> "missing", instant |-> 0],
                      [kind |-> "unparsable", instant |-> 0],
                      [kind |-> "date", instant |-> Now],
                      [kind |-> "date", instant |-> Now - 60] },
      subscriberCount : {0, 1000},
      videoCount : {0, 2},
      viewCount : {0, 400} ]

\* The videos of the channel: ordinary public uploads published 5, 20 or 40
\* days ago with 0 to 300 views, and one video of each kind that the
\* eligibility rule excludes.
StatusVideoItemsOf(id) ==
    { VideoItem(id, "public", "processed", "none", {},
                <<"P", "T", "1", "M", "2", "S">>, published, views) :
        published \in {Now - 5, Now - 20, Now - 40},
        views \in {0, 100, 200, 300} }
    \cup
    { VideoItem(id, "private", "processed", "none", {},
                <<"P", "T", "1", "M", "2", "S">>, Now - 5, 100),
      VideoItem(id, "public", "uploaded", "none", {},
                <<"P", "T", "1", "M", "2", "S">>, Now - 5, 100),
      VideoItem(id, "public", "processed", "live", {"actualStartTime"},
                <<"P", "T", "0", "S">>, Now - 5, 100),
      VideoItem(id, "public", "processed", "upcoming", {"scheduledStartTime"},
                <<"P", "T", "0", "S">>, Now - 5, 100) }

Playlist(id, title, itemCount) ==
    [playlistId |-> id, title |-> title, itemCount |-> itemCount]

PlaylistSamples ==
    { <<>>,
      << Playlist("PL1", <<"x">>, 3), Playlist("PL2", <<"y", "\n", "z">>, 5) >> }

\* What the data source does during one call: every request succeeds, or the
\* requests of one kind fail.
StatusApiOk ==
    [ search |-> "hit", basic |-> "ok", playlistsFailAt |-> 0,
      search10FailAt |-> 0, stats10Fail |-> {},
      search30FailAt |-> 0, stats30Fail |-> {} ]

StatusApiBehaviours ==
    { StatusApiOk,
      [StatusApiOk EXCEPT !.basic = "raise"],
      [StatusApiOk EXCEPT !.basic = "empty"],
      [StatusApiOk EXCEPT !.playlistsFailAt = 1],
      [StatusApiOk EXCEPT !.search10FailAt = 1],
      [StatusApiOk EXCEPT !.stats10Fail = {1}],
      [StatusApiOk EXCEPT !.search30FailAt = 1],
      [StatusApiOk EXCEPT !.stats30Fail = {1}],
      [StatusApiOk EXCEPT !.search10FailAt = 1, !.search30FailAt = 1] }

InitStatus ==
    /\ chan \in ChannelSamples
    /\ videos \in {w \in [VideoIds -> UNION {StatusVideoItemsOf(id) : id \in VideoIds}] :
                      \A id \in VideoIds : w[id].id = id}
    /\ playlists \in PlaylistSamples
    /\ status = <<>>
    /\ stats_10 = <<>>
    /\ stats_30 = <<>>
    /\ playlists_meta = <<>>
    /\ ui = <<>>
    /\ sheetRecord = <<>>
    /\ record_items = <<>>
    /\ duration = <<>>
    /\ parsed = <<>>
    /\ requests = <<>>
    /\ uploads = <<>>
    /\ sheetStatus = <<>>
    /\ sheetSearchTarget = <<>>
    /\ batch_limit = <<>>
    /\ video_ids = <<>>
    /\ counts = <<>>
    /\ asked = <<>>
    /\ updated_count = <<>>
    /\ quota_usage = <<>>

ComputeStep ==
    /\ status = <<>>
    /\ requests = <<>>
    /\ \E channel_id \in ChannelIds, api \in StatusApiBehaviours,
          hits10 \in SearchResults(10), hits30 \in SearchResults(30) :
          \E r \in {compute_channel_status(channel_id, api, hits10, hits30)} :
          /\ status' = r.status
          /\ stats_10' = r.stats_10
          /\ stats_30' = r.stats_30
          /\ playlists_meta' = r.playlists_meta
          /\ requests' = r.requests
          /\ ui' = r.warned
    /\ UNCHANGED <<chan, playlists, videos, sheetRecord, record_items, duration,
                   parsed, uploads, sheetVars, collectorVars>>

NextStatus == ComputeStep

SpecStatus == InitStatus /\ [][NextStatus]_vars

(***************************************************************************)
(* build_status_row (src/app.py 1072-1108).  A cell is a number, a text, a *)
(* date text ("%Y/%m/%d" of a day) or a playlist column.                   *)
(***************************************************************************)
Num(n) == [num |-> n]
Text(t) == [text |-> t]
DateCell(day) == [date |-> day]

WindowCells(w) ==
    << Num(w.total_views), Num(w.num_videos), Text(w.top_title),
       Num(w.top_views), Num(w.top_share), Num(w.avg_views_per_video),
       Num(w.views_per_sub) >>

build_status_row(st) ==
    << DateCell(st.data_date_str),
       Text(st.channel_id),
       Text(st.channel_title),
       Num(st.subs),
       Num(st.vids_total),
       Num(st.views_total),
       IF st.channel_published_str # <<>>
       THEN DateCell(st.channel_published_str[1]) ELSE Text(<<>>),
       IF st.months_active # <<>> THEN Num(st.months_active[1]) ELSE Text(<<>>),
       Num(st.subs_per_month),
       Num(st.subs_per_video),
       Num(st.views_per_video),
       Num(st.views_per_sub),
       Num(st.subs_per_total_view),
       Num(st.playlists_per_video),
       Num(st.videos_per_month),
       Num(st.videos_per_subscriber) >>
    \o st.playlist_cols
    \o WindowCells(st.last10)
    \o WindowCells(st.last30)

(***************************************************************************)
(* The worksheets read by the batch update (src/app.py 238-366).  A row of *)
(* the search-target sheet is <<channel id, channel name>>, the name being *)
(* a text (<<>> when blank).                                               *)
(***************************************************************************)
\* parse_status_date: <<>> is None.
parse_status_date(cell) ==
    IF "date" \in DOMAIN cell THEN <<cell.date>> ELSE <<>>

DateMin == -1       \* datetime.min, earlier than every day of the model

\* read_search_targets: the rows with a channel id.
read_search_targets(sheet) ==
    SelectSeq(sheet, LAMBDA row : row[1] # "")

\* LatestStatusDate keeping the date of the last row of the channel.
RECURSIVE LatestStatusDateLastRow(_, _, _)
LatestStatusDateLastRow(rows, channel_id, latest) ==
    IF rows = <<>> THEN latest
    ELSE LET row == Head(rows)
             dt == parse_status_date(row[1])
         IN  LatestStatusDateLastRow(Tail(rows), channel_id,
                 IF row[2].text = channel_id /\ dt # <<>> THEN dt ELSE latest)

\* get_latest_status_dates, for one channel: the latest parsable date of its
\* rows, <<>> when there is none.
RECURSIVE LatestStatusDate(_, _, _)
LatestStatusDate(rows, channel_id, latest) ==
    IF rows = <<>> THEN latest
    ELSE LET row == Head(rows)
             dt == parse_status_date(row[1])
         IN  LatestStatusDate(Tail(rows), channel_id,
                 IF row[2].text = channel_id /\ dt # <<>>
                    /\ (latest = <<>> \/ dt[1] > latest[1])
                 THEN dt ELSE latest)

\* get_latest_channel_titles_from_status, for one channel: latest is <<>> or
\* <<date, title>>; a row without a parsable date counts as datetime.min.
RECURSIVE LatestStatusTitle(_, _, _)
LatestStatusTitle(rows, channel_id, latest) ==
    IF rows = <<>> THEN latest
    ELSE LET row == Head(rows)
             parsed_dt == parse_status_date(row[1])
             dt == IF parsed_dt = <<>> THEN DateMin ELSE parsed_dt[1]
             channel_title == Strip(row[3].text)
         IN  LatestStatusTitle(Tail(rows), channel_id,
                 IF row[2].text = channel_id /\ channel_title # <<>>
                    /\ (latest = <<>> \/ dt > latest[1])
                 THEN <<dt, channel_title>> ELSE latest)

\* fill_missing_channel_names_on_search_target: the sheet after the update.
fill_missing_channel_names_on_search_target(sheet, status_rows) ==
    [ i \in 1..Len(sheet) |->
        LET found == LatestStatusTitle(status_rows, sheet[i][1], <<>>) IN
        IF sheet[i][1] # "" /\ sheet[i][2] = <<>> /\ found # <<>>
        THEN <<sheet[i][1], found[2]>>
        ELSE sheet[i] ]

\* sort_key of sort_targets_by_staleness.
StaleKey(target, status_rows) ==
    LET dt == LatestStatusDate(status_rows, target[1], <<>>) IN
    IF dt = <<>> THEN <<0, DateMin>> ELSE <<1, dt[1]>>

KeyLeq(a, b) == a[1] < b[1] \/ (a[1] = b[1] /\ a[2] <= b[2])

\* sorted(targets, key=sort_key): stable and ascending.
RECURSIVE InsertByStaleness(_, _, _)
InsertByStaleness(sorted, target, status_rows) ==
    IF sorted = <<>> THEN <<target>>
    ELSE IF KeyLeq(StaleKey(sorted[Len(sorted)], status_rows),
                   StaleKey(target, status_rows))
         THEN Append(sorted, target)
         ELSE Append(InsertByStaleness(SubSeq(sorted, 1, Len(sorted) - 1),
                                       target, status_rows),
                     sorted[Len(sorted)])

RECURSIVE sort_targets_by_staleness(_, _)
sort_targets_by_staleness(targets, status_rows) ==
    IF targets = <<>> THEN <<>>
    ELSE InsertByStaleness(
             sort_targets_by_staleness(SubSeq(targets, 1, Len(targets) - 1),
                                       status_rows),
             targets[Len(targets)], status_rows)

(***************************************************************************)
(* The handlers that compute channel statuses (src/app.py 1336-1375 and    *)
(* 1444-1615).                                                             *)
(***************************************************************************)
ROUTINE_RECORD_CHANNEL_ID == "UC1"
ROUTINE_STATUS_CHANNEL_IDS == <<"UC1", "UC2">>

MaxStatusRows == 2      \* rows the Status sheet may hold in the model

\* What the data source does during one call of compute_channel_status made
\* by a handler.
LoopApiBehaviours ==
    { StatusApiOk,
      [StatusApiOk EXCEPT !.basic = "raise"],
      [StatusApiOk EXCEPT !.basic = "empty"] }

\* The same for a handler that resolves the channel first.
TabApiBehaviours ==
    LoopApiBehaviours
    \cup { [StatusApiOk EXCEPT !.search = "raise"],
           [StatusApiOk EXCEPT !.search = "empty"] }

\* What the source does during the Record part of the routine.
RoutineRecordBehaviours ==
    { ApiOk, [ApiOk EXCEPT !.channels = "raise"] }

NoCall ==
    [ status |-> <<>>, stats_10 |-> <<>>, stats_30 |-> <<>>,
      playlists_meta |-> <<>>, warned |-> <<>>, requests |-> <<>> ]

\* The loops of lines 1358-1363 and 1507-1516 from channel number k on:
\* compute_channel_status for each channel, a row for each snapshot, the id
\* of each channel without one.  apis[k] is what the source does during
\* call k; acc carries status_rows / result_rows, failed_status_ids /
\* ng_items, the warnings, the requests and the last call.
\* StatusLoop leaving the loop at the first channel without a snapshot.
RECURSIVE StatusLoopStopsAtFailure(_, _, _, _, _, _)
StatusLoopStopsAtFailure(channel_ids, apis, hits10, hits30, k, acc) ==
    IF k > Len(channel_ids) \/ acc.failed # <<>> THEN acc
    ELSE CHOOSE result \in
             { StatusLoopStopsAtFailure(channel_ids, apis, hits10, hits30, k + 1, next) :
                 next \in { [ rows |-> IF call.status # <<>>
                                       THEN Append(acc.rows, build_status_row(call.status[1]))
                                       ELSE acc.rows,
                              failed |-> IF call.status # <<>> THEN acc.failed
                                         ELSE Append(acc.failed, channel_ids[k]),
                              warned |-> acc.warned \o call.warned,
                              requests |-> acc.requests \o call.requests,
                              last |-> call ] :
                     call \in { compute_channel_status(channel_ids[k], apis[k],
                                                       hits10, hits30) } } } : TRUE

StatusLoopBody(acc, channel_id, call) ==
    [ rows |-> IF call.status # <<>>
               THEN Append(acc.rows, build_status_row(call.status[1]))
               ELSE acc.rows,
      failed |-> IF call.status # <<>> THEN acc.failed
                 ELSE Append(acc.failed, channel_id),
      warned |-> acc.warned \o call.warned,
      requests |-> acc.requests \o call.requests,
      last |-> call ]

RECURSIVE StatusLoop(_, _, _, _, _, _)
StatusLoop(channel_ids, apis, hits10, hits30, k, acc) ==
    IF k > Len(channel_ids) THEN acc
    ELSE CHOOSE result \in
             { StatusLoop(channel_ids, apis, hits10, hits30, k + 1, next) :
                 next \in { StatusLoopBody(acc, channel_ids[k], call) :
                     call \in { compute_channel_status(channel_ids[k], apis[k],
                                                       hits10, hits30) } } } : TRUE

StatusLoopStart(sent) ==
    [rows |-> <<>>, failed |-> <<>>, warned |-> <<>>, requests |-> sent, last |-> NoCall]

\* The locals of the last call of compute_channel_status.
LastCall(call) ==
    /\ status' = call.status
    /\ stats_10' = call.stats_10
    /\ stats_30' = call.stats_30
    /\ playlists_meta' = call.playlists_meta

\* routine_btn: "ルーティン"
RoutineBtn(apiRecord, apis, hits10, hits30) ==
    \E f \in {fetch_channel_upload_items(ROUTINE_RECORD_CHANNEL_ID, 50, apiRecord)} :
    \E loop \in {StatusLoop(ROUTINE_STATUS_CHANNEL_IDS, apis, hits10, hits30, 1,
                            StatusLoopStart(f.requests))} :
        /\ Len(sheetRecord) + Len(f.items) <= MaxRecordRows
        /\ loop.rows = <<>> \/ Len(sheetStatus) + Len(loop.rows) <= MaxStatusRows
        /\ record_items' = f.items
        /\ sheetRecord' = append_rows(sheetRecord,
               [i \in 1..Len(f.items) |->
                   build_record_row_from_video_item(f.items[i], LoggedAt)])
        /\ sheetStatus' = append_rows(sheetStatus, loop.rows)
        /\ LastCall(loop.last)
        /\ requests' = loop.requests
        /\ ui' = f.warned \o loop.warned \o <<"success:routine">>
                 \o (IF loop.failed # <<>> THEN <<"warning:status failed">> ELSE <<>>)
        /\ UNCHANGED sheetSearchTarget

\* status_btn: "このチャンネルのステータスを Status に1行追記"
StatusBtn(url_or_id, api, hits10, hits30) ==
    IF Blank(url_or_id)
    THEN /\ ui' = <<"error:blank input">>
         /\ requests' = <<>>
         /\ UNCHANGED <<status, stats_10, stats_30, playlists_meta, sheetStatus>>
    ELSE LET resolved == resolve_channel_id_simple(url_or_id, api.search)
             channel_id == resolved.channel_id
         IN
         IF Falsy(channel_id)
         THEN /\ ui' = <<"error:unresolved channel">>
              /\ requests' = resolved.requests
              /\ UNCHANGED <<status, stats_10, stats_30, playlists_meta, sheetStatus>>
         ELSE \E call \in {compute_channel_status(channel_id[1], api, hits10, hits30)} :
              /\ LastCall(call)
              /\ requests' = resolved.requests \o call.requests
              /\ IF call.status = <<>>
                 THEN /\ ui' = call.warned \o <<"error:status failed">>
                      /\ UNCHANGED sheetStatus
                 ELSE /\ Len(sheetStatus) + 1 <= MaxStatusRows
                      /\ sheetStatus' = append_rows(sheetStatus,
                             <<build_status_row(call.status[1])>>)
                      /\ ui' = call.warned \o <<"success:status">>

\* batch_btn: "検索対象シートを読み込み、古い順で Status に追記"
BatchBtn(apis, hits10, hits30) ==
    LET filled == fill_missing_channel_names_on_search_target(sheetSearchTarget,
                                                               sheetStatus)
        info == IF filled # sheetSearchTarget THEN <<"info:names filled">> ELSE <<>>
        targets == read_search_targets(filled)
    IN
    /\ sheetSearchTarget' = filled
    /\ IF targets = <<>>
       THEN /\ ui' = info \o <<"warning:no targets">>
            /\ requests' = <<>>
            /\ UNCHANGED <<status, stats_10, stats_30, playlists_meta, sheetStatus>>
       ELSE LET ordered_targets == sort_targets_by_staleness(targets, sheetStatus)
                picked == SubSeq(ordered_targets, 1,
                                 Min(batch_limit, Len(ordered_targets)))
                picked_ids == [i \in 1..Len(picked) |-> picked[i][1]]
            IN
            \E loop \in {StatusLoop(picked_ids, apis, hits10, hits30, 1,
                                    StatusLoopStart(<<>>))} :
                /\ loop.rows = <<>> \/ Len(sheetStatus) + Len(loop.rows) <= MaxStatusRows
                /\ sheetStatus' = append_rows(sheetStatus, loop.rows)
                /\ LastCall(loop.last)
                /\ requests' = loop.requests
                /\ ui' = info \o loop.warned \o <<"success:batch">>
                         \o (IF loop.rows # <<>> THEN <<"ok items">> ELSE <<>>)
                         \o (IF loop.failed # <<>> THEN <<"ng items">> ELSE <<>>)

\* analyze_btn: "このチャンネルのステータスを取得（TXT/コピー用）"
AnalyzeBtn(url_or_id_txt, api, hits10, hits30) ==
    IF Blank(url_or_id_txt)
    THEN /\ ui' = <<"error:blank input">>
         /\ requests' = <<>>
         /\ UNCHANGED <<status, stats_10, stats_30, playlists_meta>>
    ELSE LET resolved == resolve_channel_id_simple(url_or_id_txt, api.search)
             channel_id == resolved.channel_id
         IN
         IF Falsy(channel_id)
         THEN /\ ui' = <<"error:unresolved channel">>
              /\ requests' = resolved.requests
              /\ UNCHANGED <<status, stats_10, stats_30, playlists_meta>>
         ELSE \E call \in {compute_channel_status(channel_id[1], api, hits10, hits30)} :
              /\ LastCall(call)
              /\ requests' = resolved.requests \o call.requests
              /\ ui' = call.warned \o
                       (IF call.status = <<>> THEN <<"error:analysis failed">>
                        ELSE <<"text:summary">>)

(***************************************************************************)
(* Specification SpecStatusTab: the four handlers over a fixed channel,    *)
(* every failure of its basic info, and several Status and search-target   *)
(* sheets.                                                                 *)
(***************************************************************************)
StatusColumns == 35     \* the number of cells of a Status row

\* A row that an earlier run left on the Status sheet.
EarlierRow(date_cell, channel_id, channel_title) ==
    [ i \in 1..StatusColumns |->
        IF i = 1 THEN date_cell
        ELSE IF i = 2 THEN Text(channel_id)
        ELSE IF i = 3 THEN Text(channel_title)
        ELSE Num(0) ]

\* The Status sheet, the search-target sheet and the batch limit at the
\* start: nothing yet; a dated row of "UC1", which makes "UC2" the stalest
\* target; a row of "UC2" whose date cannot be read, a target row without a
\* channel id, and a limit of one target; three dated rows, two of "UC1"
\* around the one of "UC2", on a sheet that is full.
TabSheetSamples ==
    { [ status |-> <<>>, targets |-> <<>>, limit |-> 30 ],
      [ status |-> <<>>,
        targets |-> << <<"UC1", <<>>>>, <<"UC2", <<"n">>>> >>,
        limit |-> 30 ],
      [ status |-> << EarlierRow(DateCell(Now - 5), "UC1", <<"o", "l", "d">>) >>,
        targets |-> << <<"UC1", <<>>>>, <<"UC2", <<"n">>>> >>,
        limit |-> 30 ],
      [ status |-> << EarlierRow(Text(<<"?">>), "UC2", <<" ", "t", "w", "o">>) >>,
        targets |-> << <<"UC2", <<>>>>, <<"", <<"x">>>>, <<"UC1", <<>>>> >>,
        limit |-> 1 ],
      [ status |-> << EarlierRow(DateCell(Now - 2), "UC1", <<"o", "l", "d">>),
                      EarlierRow(DateCell(Now - 5), "UC2", <<"t", "w", "o">>),
                      EarlierRow(DateCell(Now - 9), "UC1", <<"o", "l", "d">>) >>,
        targets |-> << <<"UC1", <<"o", "l", "d">>>>, <<"UC2", <<"n">>>> >>,
        limit |-> 30 ] }

\* The channel and its two uploads, published 5 and 20 days ago.
TabChannel ==
    [ title |-> <<"C", "\n", "h">>,
      publishedAt |-> [kind |-> "date", instant |-> Now - 60],
      subscriberCount |-> 1000, videoCount |-> 2, viewCount |-> 400 ]

TabVideos ==
    [ id \in VideoIds |->
        VideoItem(id, "public", "processed", "none", {},
                  <<"P", "T", "1", "M", "2", "S">>,
                  IF id = "v1" THEN Now - 5 ELSE Now - 20,
                  IF id = "v1" THEN 100 ELSE 300) ]

TabPlaylists ==
    << Playlist("PL1", <<"x">>, 3), Playlist("PL2", <<"y", "\n", "z">>, 5) >>

InitStatusTab ==
    /\ chan = TabChannel
    /\ videos = TabVideos
    /\ playlists = TabPlaylists
    /\ uploads = <<"v1", "v2">>
    /\ \E sheets \in TabSheetSamples :
           /\ sheetStatus = sheets.status
           /\ sheetSearchTarget = sheets.targets
           /\ batch_limit = sheets.limit
    /\ sheetRecord = <<>>
    /\ record_items = <<>>
    /\ status = <<>>
    /\ stats_10 = <<>>
    /\ stats_30 = <<>>
    /\ playlists_meta = <<>>
    /\ requests = <<>>
    /\ ui = <<>>
    /\ duration = <<>>
    /\ parsed = <<>>
    /\ video_ids = <<>>
    /\ counts = <<>>
    /\ asked = <<>>
    /\ updated_count = <<>>
    /\ quota_usage = <<>>

RoutineStep ==
    /\ \E apiRecord \in RoutineRecordBehaviours,
          apis \in [1..Len(ROUTINE_STATUS_CHANNEL_IDS) -> LoopApiBehaviours],
          hits10 \in SearchResults(10), hits30 \in SearchResults(30) :
          RoutineBtn(apiRecord, apis, hits10, hits30)
    /\ UNCHANGED <<videos, chan, playlists, uploads, batch_limit, duration, parsed,
                   collectorVars>>

StatusBtnStep ==
    /\ \E url_or_id \in ChannelInputs, api \in TabApiBehaviours,
          hits10 \in SearchResults(10), hits30 \in SearchResults(30) :
          StatusBtn(url_or_id, api, hits10, hits30)
    /\ UNCHANGED <<videos, chan, playlists, uploads, sheetRecord, record_items,
                   sheetSearchTarget, batch_limit, duration, parsed, collectorVars>>

BatchStep ==
    /\ \E apis \in [1..Len(sheetSearchTarget) -> LoopApiBehaviours],
          hits10 \in SearchResults(10), hits30 \in SearchResults(30) :
          BatchBtn(apis, hits10, hits30)
    /\ UNCHANGED <<videos, chan, playlists, uploads, sheetRecord, record_items,
                   batch_limit, duration, parsed, collectorVars>>

AnalyzeStep ==
    /\ \E url_or_id_txt \in ChannelInputs, api \in TabApiBehaviours,
          hits10 \in SearchResults(10), hits30 \in SearchResults(30) :
          AnalyzeBtn(url_or_id_txt, api, hits10, hits30)
    /\ UNCHANGED <<videos, chan, playlists, uploads, sheetRecord, record_items,
                   sheetStatus, sheetSearchTarget, batch_limit, duration, parsed,
                   collectorVars>>

NextStatusTab == RoutineStep \/ StatusBtnStep \/ BatchStep \/ AnalyzeStep

SpecStatusTab == InitStatusTab /\ [][NextStatusTab]_vars

(***************************************************************************)
(* Specification SpecTabs: the four handlers that take a URL, an id or a   *)
(* name from the operator, on the same sheets: run_single_btn,             *)
(* run_recent_btn, status_btn and analyze_btn.                             *)
(***************************************************************************)
NextTabs == SingleStep \/ RecentStep \/ StatusBtnStep \/ AnalyzeStep

SpecTabs == InitStatusTab /\ [][NextTabs]_vars

(***************************************************************************)
(* Specification SpecChannel: status_btn over channels of every age up to  *)
(* MaxDays days, with and without a readable creation date.                *)
(***************************************************************************)
MaxDays == 61

ChannelAges ==
    [ title : {<<"C", "\n", "h">>},
      publishedAt : { [kind |-> "missing", instant |-> 0],
                      [kind |-> "unparsable", instant |-> 0] }
                    \cup { [kind |-> "date", instant |-> Now - d] : d \in 0..MaxDays },
      subscriberCount : {0, 1, 120, 1000},
      videoCount : {2},
      viewCount : {400} ]

InitChannel ==
    /\ chan \in ChannelAges
    /\ videos = TabVideos
    /\ playlists = TabPlaylists
    /\ uploads = <<"v1", "v2">>
    /\ sheetStatus = <<>>
    /\ sheetSearchTarget = <<>>
    /\ batch_limit = 1
    /\ sheetRecord = <<>>
    /\ record_items = <<>>
    /\ status = <<>>
    /\ stats_10 = <<>>
    /\ stats_30 = <<>>
    /\ playlists_meta = <<>>
    /\ requests = <<>>
    /\ ui = <<>>
    /\ duration = <<>>
    /\ parsed = <<>>
    /\ video_ids = <<>>
    /\ counts = <<>>
    /\ asked = <<>>
    /\ updated_count = <<>>
    /\ quota_usage = <<>>

NextChannel == StatusBtnStep

SpecChannel == InitChannel /\ [][NextChannel]_vars

(***************************************************************************)
(* Specification SpecPlaylists: compute_channel_status over every list of  *)
(* up to MaxPlaylists playlists.                                           *)
(***************************************************************************)
MaxPlaylists == 7

PlaylistIdAt(i) ==
    <<"PL1", "PL2", "PL3", "PL4", "PL5", "PL6", "PL7", "PL8", "PL9">>[i]

ItemCountSamples == {0, 3, 5}

PlaylistListings ==
    UNION { { [i \in 1..n |-> Playlist(PlaylistIdAt(i), <<"x">>, c[i])] :
                c \in [1..n -> ItemCountSamples] } : n \in 0..MaxPlaylists }

InitPlaylists ==
    /\ chan = TabChannel
    /\ videos = TabVideos
    /\ playlists \in PlaylistListings
    /\ uploads = <<"v1", "v2">>
    /\ sheetStatus = <<>>
    /\ sheetSearchTarget = <<>>
    /\ batch_limit = 1
    /\ sheetRecord = <<>>
    /\ record_items = <<>>
    /\ status = <<>>
    /\ stats_10 = <<>>
    /\ stats_30 = <<>>
    /\ playlists_meta = <<>>
    /\ requests = <<>>
    /\ ui = <<>>
    /\ duration = <<>>
    /\ parsed = <<>>
    /\ video_ids = <<>>
    /\ counts = <<>>
    /\ asked = <<>>
    /\ updated_count = <<>>
    /\ quota_usage = <<>>

SpecPlaylists == InitPlaylists /\ [][NextStatus]_vars

(***************************************************************************)
(* The collectors on their own, against listings longer than one page:     *)
(* fetch_channel_upload_items, get_playlists_meta,                         *)
(* search_video_ids_published_after, get_videos_stats and                  *)
(* fetch_comment_counts.  Video and playlist ids are numbers here.         *)
(***************************************************************************)
MaxIds == 101           \* the longest listing and the longest id list
MaxFailAt == 3          \* the latest request of a call that is made to raise

\* The ids 1..n in order.
IdList(n) == [i \in 1..n |-> i]

\* The source no longer has the video whose id is DeletedId.
DeletedId == 3

PagingVideo(i) ==
    [ id |-> i,
      title |-> <<"t">>,
      publishedAt |-> MaxIds - i,
      liveBroadcastContent |-> IF i = 2 THEN "upcoming" ELSE "none",
      privacyStatus |-> "public",
      uploadStatus |-> "processed",
      duration |-> <<"P", "T", "1", "M", "2", "S">>,
      liveStreamingDetails |-> {},
      viewCount |-> i,
      likeCount |-> 1,
      commentCount |-> IF i % 2 = 0 THEN <<i>> ELSE <<>> ]

PagingVideos == [i \in (1..MaxIds) \ {DeletedId} |-> PagingVideo(i)]

PagingPlaylists(n) == [i \in 1..n |-> Playlist(i, <<"p">>, i % 4)]

\* The uploads playlist and the playlists of the channel: none; a few; more
\* than one page of each.
PagingSamples ==
    { [uploads |-> <<>>, playlists |-> <<>>],
      [uploads |-> IdList(4), playlists |-> PagingPlaylists(3)],
      [uploads |-> IdList(PageMax + 10), playlists |-> PagingPlaylists(MaxIds)] }

\* What the source puts on a page of playlistItems.list: what was asked for,
\* one or two entries, or ten more than a full page.
\* The calls of fetch_channel_upload_items: max_results, which the function
\* cuts to PageMax, and the number of entries the source puts on a page of
\* playlistItems.list: what was asked for, fewer, or more than a full page.
UploadCallSamples ==
    ({1, 3} \X {<<>>, <<1>>, <<2>>, <<PageMax + 10>>})
        \cup ({PageMax, PageMax + 10} \X {<<>>, <<20>>, <<PageMax + 10>>})

ListLengths == {0, 1, PageMax, PageMax + 1, 2 * PageMax, MaxIds}

InitPaging ==
    /\ videos = PagingVideos
    /\ \E sample \in PagingSamples :
           /\ uploads = sample.uploads
           /\ playlists = sample.playlists
    /\ chan = <<>>
    /\ sheetStatus = <<>>
    /\ sheetSearchTarget = <<>>
    /\ batch_limit = <<>>
    /\ sheetRecord = <<>>
    /\ record_items = <<>>
    /\ status = <<>>
    /\ stats_10 = <<>>
    /\ stats_30 = <<>>
    /\ playlists_meta = <<>>
    /\ requests = <<>>
    /\ ui = <<>>
    /\ duration = <<>>
    /\ parsed = <<>>
    /\ video_ids = <<>>
    /\ counts = <<>>
    /\ asked = <<>>
    /\ updated_count = <<>>
    /\ quota_usage = <<>>

\* What a call leaves alone.  The variables that hold the result of a
\* collector hold the result of the last call only: a call of another
\* collector empties them.
PagingFrame ==
    UNCHANGED <<videos, uploads, playlists, chan, sheetVars, sheetRecord, status,
                stats_10, stats_30, duration, parsed, sessionVars>>

UploadsCall ==
    /\ asked = <<>>
    /\ \E sample \in UploadCallSamples, failAt \in 0..MaxFailAt,
          videosRaise \in BOOLEAN :
          \E max_results \in {sample[1]}, serve \in {sample[2]} :
          \E r \in {fetch_channel_upload_items("UC1", max_results,
                        [ApiOk EXCEPT !.failAt = failAt, !.serve = serve,
                                      !.videosRaise = videosRaise])} :
          /\ record_items' = r.items
          /\ video_ids' = r.video_ids
          /\ requests' = r.requests
          /\ ui' = r.warned
          /\ asked' = [ fn |-> "fetch_channel_upload_items",
                        max_results |-> max_results, failAt |-> failAt,
                        serve |-> serve ]
    /\ playlists_meta' = <<>>
    /\ counts' = <<>>
    /\ PagingFrame

PlaylistsCall ==
    /\ asked = <<>>
    /\ \E failAt \in 0..MaxFailAt :
          \E r \in {get_playlists_meta("UC1", failAt)} :
          /\ playlists_meta' = r.pls
          /\ requests' = r.requests
          /\ ui' = r.warned
          /\ asked' = [fn |-> "get_playlists_meta", failAt |-> failAt]
    /\ record_items' = <<>>
    /\ video_ids' = <<>>
    /\ counts' = <<>>
    /\ PagingFrame

SearchCall ==
    /\ asked = <<>>
    /\ \E n \in ListLengths, days \in {10, 30}, failAt \in 0..MaxFailAt :
          \E r \in {search_video_ids_published_after("UC1", days, IdList(n), failAt)} :
          /\ video_ids' = r.video_ids
          /\ requests' = r.requests
          /\ ui' = r.warned
          /\ asked' = [ fn |-> "search_video_ids_published_after",
                        hits |-> IdList(n), failAt |-> failAt ]
    /\ record_items' = <<>>
    /\ playlists_meta' = <<>>
    /\ counts' = <<>>
    /\ PagingFrame

StatsCall ==
    /\ asked = <<>>
    /\ \E n \in ListLengths, failChunks \in SUBSET (1..MaxFailAt) :
          \E r \in {get_videos_stats(IdList(n), failChunks)} :
          /\ counts' = r.out
          /\ requests' = r.requests
          /\ ui' = r.warned
          /\ asked' = [ fn |-> "get_videos_stats", ids |-> IdList(n),
                        failChunks |-> failChunks ]
    /\ record_items' = <<>>
    /\ playlists_meta' = <<>>
    /\ video_ids' = <<>>
    /\ PagingFrame

CommentCountsCall ==
    /\ asked = <<>>
    /\ \E n \in ListLengths, failChunks \in SUBSET (1..MaxFailAt) :
          \E r \in {fetch_comment_counts(IdList(n), failChunks)} :
          /\ counts' = r.result
          /\ requests' = r.requests
          /\ ui' = r.warned
          /\ asked' = [ fn |-> "fetch_comment_counts", ids |-> IdList(n),
                        failChunks |-> failChunks ]
    /\ record_items' = <<>>
    /\ playlists_meta' = <<>>
    /\ video_ids' = <<>>
    /\ PagingFrame

NextPaging ==
    UploadsCall \/ PlaylistsCall \/ SearchCall \/ StatsCall \/ CommentCountsCall

SpecPaging == InitPaging /\ [][NextPaging]_vars

(***************************************************************************)
(* Specification SpecRow: build_record_row_from_video_item applied to      *)
(* every title of up to MaxTitleLen characters, with and without a comment *)
(* count, live details and duration.                                       *)
(***************************************************************************)
MaxTitleLen == 4

\* The characters of the titles: a letter, a blank, a newline and a double
\* quote.
TitleChars == {"a", " ", "\n", "\""}

Titles == UNION {[1..k -> TitleChars] : k \in 0..MaxTitleLen}

RowItems ==
    { [ VideoItem("v1", "public", "processed", "none", live, dur, 2, 10)
          EXCEPT !.title = t, !.commentCount = c ] :
        t \in Titles,
        c \in {<<>>, <<0>>, <<4>>},
        live \in {{}, {"actualStartTime", "actualEndTime"}},
        dur \in {<<"P", "T", "3", "S">>, MissingKey} }

InitRow ==
    /\ videos \in {[id \in {"v1"} |-> item] : item \in RowItems}
    /\ sheetRecord = <<>>
    /\ record_items = <<>>
    /\ ui = <<>>
    /\ duration = <<>>
    /\ parsed = <<>>
    /\ chan = <<>>
    /\ playlists = <<>>
    /\ status = <<>>
    /\ stats_10 = <<>>
    /\ stats_30 = <<>>
    /\ playlists_meta = <<>>
    /\ requests = <<>>
    /\ uploads = <<>>
    /\ sheetStatus = <<>>
    /\ sheetSearchTarget = <<>>
    /\ batch_limit = <<>>
    /\ video_ids = <<>>
    /\ counts = <<>>
    /\ asked = <<>>
    /\ updated_count = <<>>
    /\ quota_usage = <<>>

\* The row of the item, built once and appended to the empty sheet.
RowStep ==
    /\ sheetRecord = <<>>
    /\ record_items' = <<videos["v1"]>>
    /\ sheetRecord' = append_rows(sheetRecord,
                          <<build_record_row_from_video_item(videos["v1"], LoggedAt)>>)
    /\ UNCHANGED <<duration, parsed, videos, ui, statusVars, requests, uploads,
                   sheetVars, collectorVars>>

NextRow == RowStep

SpecRow == InitRow /\ [][NextRow]_vars

(***************************************************************************)
(* Specification SpecRefresh: refresh_comments_btn, pressed any number of  *)
(* times, over every Record sheet of up to MaxRefreshRows rows.            *)
(***************************************************************************)
MaxRefreshRows == 3

\* A row written by the application for a video of the catalogue.
AppRow(id) == build_record_row_from_video_item(TabVideos[id], LoggedAt)

\* A row typed by hand, with "9" as its comment count.
HandRow(input) ==
    << LoggedAt, "video", [plain |-> input], <<1>>, 62, 10, 1, <<"9">> >>

\* Rows of the two videos, and rows whose title cell is the id of "v1", the
\* id of a video the source does not know, nothing, and a short URL without
\* an id.
RefreshRowSamples ==
    { AppRow("v1"), AppRow("v2"),
      HandRow("v1"), HandRow("v0"), HandRow(""), HandRow("youtu.be/") }

\* The catalogue: "v2" without a comment count, or with 12 comments.
RefreshCatalogues ==
    { TabVideos, [TabVideos EXCEPT !["v2"].commentCount = <<12>>] }

InitRefresh ==
    /\ videos \in RefreshCatalogues
    /\ sheetRecord \in UNION {[1..n -> RefreshRowSamples] : n \in 0..MaxRefreshRows}
    /\ record_items = <<>>
    /\ ui = <<>>
    /\ duration = <<>>
    /\ parsed = <<>>
    /\ chan = <<>>
    /\ playlists = <<>>
    /\ status = <<>>
    /\ stats_10 = <<>>
    /\ stats_30 = <<>>
    /\ playlists_meta = <<>>
    /\ requests = <<>>
    /\ uploads = <<>>
    /\ sheetStatus = <<>>
    /\ sheetSearchTarget = <<>>
    /\ batch_limit = <<>>
    /\ video_ids = <<>>
    /\ counts = <<>>
    /\ asked = <<>>
    /\ updated_count = <<>>
    /\ quota_usage = <<>>

RefreshStep ==
    /\ \E render \in {"formatted", "formula"}, failChunks \in SUBSET {1} :
          RefreshCommentsBtn(render, failChunks)
    /\ UNCHANGED <<duration, parsed, videos, statusVars, uploads, sheetVars,
                   video_ids, counts, quota_usage>>

NextRefresh == RefreshStep

SpecRefresh == InitRefresh /\ [][NextRefresh]_vars

(***************************************************************************)
(* Specification SpecSheets: every handler that works on the sheets, in    *)
(* any order: the routine, status_btn, the batch update, the TXT analysis, *)
(* run_single_btn, run_recent_btn and refresh_comments_btn, for inputs     *)
(* that name the channel and its first video, against a source that        *)
(* answers or fails the basic info of a channel.                           *)
(***************************************************************************)
SheetsApiBehaviours == { StatusApiOk, [StatusApiOk EXCEPT !.basic = "raise"] }

SheetsRoutineStep ==
    /\ \E apis \in [1..Len(ROUTINE_STATUS_CHANNEL_IDS) -> SheetsApiBehaviours],
          hits10 \in SearchResults(10), hits30 \in SearchResults(30) :
          RoutineBtn(ApiOk, apis, hits10, hits30)
    /\ UNCHANGED <<videos, chan, playlists, uploads, batch_limit, duration, parsed,
                   collectorVars>>

SheetsStatusBtnStep ==
    /\ \E api \in SheetsApiBehaviours,
          hits10 \in SearchResults(10), hits30 \in SearchResults(30) :
          StatusBtn("UC1", api, hits10, hits30)
    /\ UNCHANGED <<videos, chan, playlists, uploads, sheetRecord, record_items,
                   sheetSearchTarget, batch_limit, duration, parsed, collectorVars>>

SheetsBatchStep ==
    /\ \E apis \in [1..Len(sheetSearchTarget) -> SheetsApiBehaviours],
          hits10 \in SearchResults(10), hits30 \in SearchResults(30) :
          BatchBtn(apis, hits10, hits30)
    /\ UNCHANGED <<videos, chan, playlists, uploads, sheetRecord, record_items,
                   batch_limit, duration, parsed, collectorVars>>

SheetsAnalyzeStep ==
    /\ \E api \in SheetsApiBehaviours,
          hits10 \in SearchResults(10), hits30 \in SearchResults(30) :
          AnalyzeBtn("UC1", api, hits10, hits30)
    /\ UNCHANGED <<videos, chan, playlists, uploads, sheetRecord, record_items,
                   sheetStatus, sheetSearchTarget, batch_limit, duration, parsed,
                   collectorVars>>

SheetsSingleStep ==
    /\ \E vRaises \in BOOLEAN : RunSingleBtn("v1", vRaises)
    /\ UNCHANGED <<videos, duration, parsed, statusVars, uploads, sheetVars,
                   collectorVars>>

SheetsRecentStep ==
    /\ RunRecentBtn("UC1", ApiOk)
    /\ UNCHANGED <<videos, duration, parsed, statusVars, uploads, sheetVars,
                   collectorVars>>

NextSheets ==
    \/ SheetsRoutineStep
    \/ SheetsStatusBtnStep
    \/ SheetsBatchStep
    \/ SheetsAnalyzeStep
    \/ SheetsSingleStep
    \/ SheetsRecentStep
    \/ RefreshStep

\* The sheets at the start: an empty Status sheet or one with a dated row
\* of "UC1", and two targets, the first of them without a name.
InitSheets ==
    /\ chan = TabChannel
    /\ videos = TabVideos
    /\ playlists = TabPlaylists
    /\ uploads = <<"v1", "v2">>
    /\ sheetStatus \in { <<>>,
                          << EarlierRow(DateCell(Now - 5), "UC1", <<"o", "l", "d">>) >> }
    /\ sheetSearchTarget = << <<"UC1", <<>>>>, <<"UC2", <<"n">>>> >>
    /\ batch_limit = 30
    /\ sheetRecord = <<>>
    /\ record_items = <<>>
    /\ ui = <<>>
    /\ status = <<>>
    /\ stats_10 = <<>>
    /\ stats_30 = <<>>
    /\ playlists_meta = <<>>
    /\ requests = <<>>
    /\ duration = <<>>
    /\ parsed = <<>>
    /\ video_ids = <<>>
    /\ counts = <<>>
    /\ asked = <<>>
    /\ updated_count = <<>>
    /\ quota_usage = <<>>

SpecSheets == InitSheets /\ [][NextSheets]_vars

(***************************************************************************)
(* The usage counter (src/app.py 96-143).  by_endpoint is the dictionary   *)
(* of the endpoints counted so far.                                        *)
(***************************************************************************)
QUOTA_UNITS ==
    ("channels.list" :> 1) @@ ("playlistItems.list" :> 1) @@ ("videos.list" :> 1)
    @@ ("search.list" :> 100) @@ ("playlists.list" :> 1)

\* The value ensure_quota_state puts in a new session, and reset_quota_usage
\* in any.
reset_quota_usage == [total |-> 0, by_endpoint |-> [e \in {} |-> 0]]

\* dict.get(key, 0)
GetOrZero(dict, key) == IF key \in DOMAIN dict THEN dict[key] ELSE 0

\* add_quota_usage overwriting the figure of the endpoint.
AddQuotaUsageOverwriting(usage, endpoint, count) ==
    LET units == GetOrZero(QUOTA_UNITS, endpoint) * count IN
    [ total |-> usage.total + units,
      by_endpoint |->
          [ e \in DOMAIN usage.by_endpoint \cup {endpoint} |->
              IF e = endpoint THEN units ELSE usage.by_endpoint[e] ] ]

add_quota_usage(usage, endpoint, count) ==
    LET units == GetOrZero(QUOTA_UNITS, endpoint) * count IN
    [ total |-> usage.total + units,
      by_endpoint |->
          [ e \in DOMAIN usage.by_endpoint \cup {endpoint} |->
              IF e = endpoint THEN GetOrZero(usage.by_endpoint, endpoint) + units
              ELSE usage.by_endpoint[e] ] ]

\* Every request is preceded by add_quota_usage(<its method>) inside the
\* same try block (lines 434, 513, 544, 568, 609, 703, 758, 794, 833, 866
\* and 1290): the counter after the requests of a log, whatever came back.
RECURSIVE CountRequests(_, _)
CountRequests(usage, log) ==
    IF log = <<>> THEN usage
    ELSE CountRequests(add_quota_usage(usage, Head(log).method, 1), Tail(log))

\* run_config_diagnostics (lines 1279-1302), with an API key: one
\* videos.list request for a fixed video, which succeeds or raises, and the
\* check of the spreadsheet.
run_config_diagnostics(raises) ==
    /\ requests' = << Request("videos.list", "id", <<"dQw4w9WgXcQ">>, 1, 0, <<>>,
                              IF raises THEN "raise" ELSE "ok",
                              IF raises THEN 0 ELSE 1, 0) >>
    /\ ui' = << IF raises THEN "error:api check" ELSE "success:api check",
                "success:spreadsheet check" >>

\* The reset button of render_quota_summary (lines 141-143).
ResetQuotaBtn ==
    /\ quota_usage' = reset_quota_usage
    /\ requests' = <<>>
    /\ ui' = <<"info:quota reset">>

(***************************************************************************)
(* Specification SpecQuota: the counter of one session under the handlers  *)
(* run_single_btn, run_recent_btn, analyze_btn, the connection check and   *)
(* the reset button, for up to MaxQuotaCalls counted requests.             *)
(***************************************************************************)
MaxQuotaCalls == 7

\* The number of requests counted in a usage.
CountedCalls(usage) ==
    LET seen == DOMAIN usage.by_endpoint
        calls(e) == usage.by_endpoint[e] \div QUOTA_UNITS[e]
        RECURSIVE sum(_)
        sum(S) == IF S = {} THEN 0
                  ELSE LET e == CHOOSE x \in S : TRUE IN calls(e) + sum(S \ {e})
    IN  sum(seen)

\* The counter takes the requests of the step.
QuotaCounted ==
    /\ quota_usage' = CountRequests(quota_usage, requests')
    /\ CountedCalls(quota_usage') <= MaxQuotaCalls

InitQuota ==
    /\ chan = TabChannel
    /\ videos = TabVideos
    /\ playlists = TabPlaylists
    /\ uploads = <<"v1", "v2">>
    /\ quota_usage = reset_quota_usage
    /\ sheetStatus = <<>>
    /\ sheetSearchTarget = <<>>
    /\ batch_limit = 30
    /\ sheetRecord = <<>>
    /\ record_items = <<>>
    /\ ui = <<>>
    /\ status = <<>>
    /\ stats_10 = <<>>
    /\ stats_30 = <<>>
    /\ playlists_meta = <<>>
    /\ requests = <<>>
    /\ duration = <<>>
    /\ parsed = <<>>
    /\ video_ids = <<>>
    /\ counts = <<>>
    /\ asked = <<>>
    /\ updated_count = <<>>

QuotaSingleStep ==
    /\ \E video_input \in {"", "v1"}, vRaises \in BOOLEAN :
           RunSingleBtn(video_input, vRaises)
    /\ QuotaCounted
    /\ UNCHANGED <<videos, duration, parsed, statusVars, uploads, sheetVars,
                   video_ids, counts, asked, updated_count>>

QuotaRecentStep ==
    /\ \E channel_input \in {"name", "UC1"},
          api \in {ApiOk, [ApiOk EXCEPT !.search = "raise"],
                   [ApiOk EXCEPT !.failAt = 1]} :
           RunRecentBtn(channel_input, api)
    /\ QuotaCounted
    /\ UNCHANGED <<videos, duration, parsed, statusVars, uploads, sheetVars,
                   video_ids, counts, asked, updated_count>>

QuotaAnalyzeStep ==
    /\ \E api \in SheetsApiBehaviours,
          hits10 \in SearchResults(10), hits30 \in SearchResults(30) :
          AnalyzeBtn("UC1", api, hits10, hits30)
    /\ QuotaCounted
    /\ UNCHANGED <<videos, chan, playlists, uploads, sheetRecord, record_items,
                   sheetStatus, sheetSearchTarget, batch_limit, duration, parsed,
                   video_ids, counts, asked, updated_count>>

QuotaDiagnosticsStep ==
    /\ \E raises \in BOOLEAN : run_config_diagnostics(raises)
    /\ QuotaCounted
    /\ UNCHANGED <<videos, duration, parsed, statusVars, uploads, sheetVars,
                   sheetRecord, record_items, video_ids, counts, asked,
                   updated_count>>

ResetQuotaStep ==
    /\ ResetQuotaBtn
    /\ UNCHANGED <<videos, duration, parsed, statusVars, uploads, sheetVars,
                   sheetRecord, record_items, video_ids, counts, asked,
                   updated_count>>

NextQuota ==
    \/ QuotaSingleStep
    \/ QuotaRecentStep
    \/ QuotaAnalyzeStep
    \/ QuotaDiagnosticsStep
    \/ ResetQuotaStep

SpecQuota == InitQuota /\ [][NextQuota]_vars

(***************************************************************************)
(* The three paginated loops, one iteration at a time (src/app.py 539-561, *)
(* 792-813 and 830-851).  asked holds the position of the running loop:    *)
(* its function, the source it reads, the target of the upload list, the   *)
(* number of pages requested, next_page (0 for None) and pc, "loop" while  *)
(* the loop runs and "left" once it has been left.                         *)
(***************************************************************************)
\* The source is a list of pages that it serves in turn and again from the
\* first one after the last; a page raises, or holds some entries and
\* comes with or without a continuation token.
SourcePage(source, p) == source[((p - 1) % Len(source)) + 1]

\* The response to the request for page p with the given maxResults: the
\* entries <<p, 1>>, <<p, 2>>, ... of the page, no more than asked for.
ServePage(source, p, maxResults) ==
    LET page == SourcePage(source, p) IN
    [ raised |-> page.raises,
      items |-> [j \in 1..Min(page.items, maxResults) |-> <<p, j>>],
      nextPageToken |-> IF page.more THEN p + 1 ELSE 0 ]

\* One request of a loop and what the loop does with the response: the
\* entries are added, next_page is taken from the response, and the loop is
\* left when there is none.  An exception leaves the loop as well; keep
\* says whether the except clause keeps what was collected.
PageRequest(loop, acc, method, part, maxResults, keep, warning) ==
    LET p == IF loop.next_page = 0 THEN 1 ELSE loop.next_page
        resp == ServePage(loop.source, p, maxResults)
        sent == Request(method, part, <<"UC1">>, maxResults, loop.next_page, <<>>,
                        IF resp.raised THEN "raise" ELSE "ok",
                        IF resp.raised THEN 0 ELSE Len(resp.items),
                        IF resp.raised THEN 0 ELSE resp.nextPageToken)
    IN
    IF resp.raised
    THEN [ loop |-> [loop EXCEPT !.pc = "left", !.pages = @ + 1],
           acc |-> IF keep THEN acc ELSE <<>>,
           sent |-> <<sent>>, warned |-> warning ]
    ELSE [ loop |-> [loop EXCEPT !.pc = IF resp.nextPageToken = 0 THEN "left" ELSE "loop",
                                 !.next_page = resp.nextPageToken,
                                 !.pages = @ + 1],
           acc |-> acc \o resp.items,
           sent |-> <<sent>>, warned |-> <<>> ]

LoopLeft(loop, acc) ==
    [ loop |-> [loop EXCEPT !.pc = "left"], acc |-> acc, sent |-> <<>>,
      warned |-> <<>> ]

\* The upload-list loop asking for pages whatever it has collected.
UploadLoopIgnoringTarget(loop, acc) ==
    PageRequest(loop, acc, "playlistItems.list", "contentDetails",
                IF loop.max_results > Len(acc)
                THEN Min(PageMax, loop.max_results - Len(acc)) ELSE 1, FALSE,
                <<"warning:playlistItems.list">>)

\* Lines 540-561: one iteration of the loop of fetch_channel_upload_items.
upload_loop(loop, acc) ==
    LET remaining == loop.max_results - Len(acc) IN
    IF remaining <= 0 THEN LoopLeft(loop, acc)
    ELSE PageRequest(loop, acc, "playlistItems.list", "contentDetails",
                     Min(PageMax, remaining), FALSE, <<"warning:playlistItems.list">>)

\* Lines 793-813: one iteration of the loop of get_playlists_meta.
playlists_loop(loop, acc) ==
    PageRequest(loop, acc, "playlists.list", "snippet,contentDetails", PageMax,
                TRUE, <<>>)

\* Lines 831-851: one iteration of the loop of
\* search_video_ids_published_after.
search_loop(loop, acc) ==
    PageRequest(loop, acc, "search.list", "id", PageMax, TRUE,
                <<"warning:search.list">>)

(***************************************************************************)
(* Specification SpecCollect: each loop against every source of up to      *)
(* MaxSourcePages pages, for up to MaxPagesAsked requests.  The loops are  *)
(* sequential code: an iteration that can run does run.                    *)
(***************************************************************************)
MaxSourcePages == 3
MaxPagesAsked == 5

SourcePages ==
    [items : {0, 1, 2}, more : BOOLEAN, raises : {FALSE}]
    \cup {[items |-> 0, more |-> FALSE, raises |-> TRUE]}

Sources == UNION {[1..n -> SourcePages] : n \in 1..MaxSourcePages}

LoopStarts ==
    { [ fn |-> fn, source |-> source, max_results |-> max_results,
        pages |-> 0, next_page |-> 0, pc |-> "loop" ] :
        fn \in {"playlists", "search"}, source \in Sources, max_results \in {0} }
    \cup
    { [ fn |-> "upload", source |-> source, max_results |-> max_results,
        pages |-> 0, next_page |-> 0, pc |-> "loop" ] :
        source \in Sources, max_results \in {1, 3} }

InitCollect ==
    /\ asked \in LoopStarts
    /\ video_ids = <<>>
    /\ requests = <<>>
    /\ ui = <<>>
    /\ videos = <<>>
    /\ sheetRecord = <<>>
    /\ record_items = <<>>
    /\ duration = <<>>
    /\ parsed = <<>>
    /\ chan = <<>>
    /\ playlists = <<>>
    /\ status = <<>>
    /\ stats_10 = <<>>
    /\ stats_30 = <<>>
    /\ playlists_meta = <<>>
    /\ uploads = <<>>
    /\ sheetStatus = <<>>
    /\ sheetSearchTarget = <<>>
    /\ batch_limit = <<>>
    /\ counts = <<>>
    /\ updated_count = <<>>
    /\ quota_usage = <<>>

\* What an iteration leaves alone.
CollectFrame ==
    UNCHANGED <<videos, sheetRecord, record_items, duration, parsed, chan,
                playlists, status, stats_10, stats_30, playlists_meta, uploads,
                sheetVars, counts, sessionVars>>

\* An iteration may run while the loop has not been left; a request is made
\* only while fewer than MaxPagesAsked have been made.
Iterate(next) ==
    /\ asked.pc = "loop"
    /\ next.sent # <<>> => asked.pages < MaxPagesAsked
    /\ asked' = next.loop
    /\ video_ids' = next.acc
    /\ requests' = requests \o next.sent
    /\ ui' = ui \o next.warned
    /\ CollectFrame

UploadLoopStep ==
    /\ asked.fn = "upload"
    /\ \E next \in {upload_loop(asked, video_ids)} : Iterate(next)

PlaylistsLoopStep ==
    /\ asked.fn = "playlists"
    /\ \E next \in {playlists_loop(asked, video_ids)} : Iterate(next)

SearchLoopStep ==
    /\ asked.fn = "search"
    /\ \E next \in {search_loop(asked, video_ids)} : Iterate(next)

NextCollect == UploadLoopStep \/ PlaylistsLoopStep \/ SearchLoopStep

SpecCollect == InitCollect /\ [][NextCollect]_vars /\ WF_vars(NextCollect)

(***************************************************************************)
(* Properties of the Record tab.                                           *)
(***************************************************************************)
RowType(r) == r[2]
RowVideoId(r) == r[3].url
RowDuration(r) == r[5]

\* The video of the catalogue that row i of the Record sheet was built from.
RowVideo(i) == videos[RowVideoId(sheetRecord[i])]

Eligible(v) ==
    /\ v.privacyStatus = "public"
    /\ v.uploadStatus = "processed"
    /\ v.liveBroadcastContent # "live"
    /\ v.liveBroadcastContent # "upcoming"

EndedBroadcast(v) ==
    {"actualStartTime", "actualEndTime"} \subseteq v.liveStreamingDetails

\* C1: a video is handed downstream by the two fetch functions, and a row is
\* built for it, only if it is public, processed and neither live nor
\* upcoming.
C1_EligibleOnly ==
    /\ \A i \in 1..Len(record_items) : Eligible(record_items[i])
    /\ \A i \in 1..Len(sheetRecord) : Eligible(RowVideo(i))

\* C1 witness: the channel fetch dropped a video that is live or upcoming (and
\* otherwise public and processed) and logged the other video.
C1_Witness ==
    /\ ui = <<"success:recent">>
    /\ Len(record_items) = 1
    /\ \E id \in VideoIds :
          /\ videos[id].liveBroadcastContent \in {"live", "upcoming"}
          /\ videos[id].privacyStatus = "public"
          /\ videos[id].uploadStatus = "processed"
          /\ record_items[1].id # id

\* C2: the row of an eligible video whose live details carry both a start and
\* an end timestamp has type "live", whatever its duration.
C2_EndedBroadcastIsLive ==
    \A i \in 1..Len(sheetRecord) :
        (Eligible(RowVideo(i)) /\ EndedBroadcast(RowVideo(i)))
            => RowType(sheetRecord[i]) = "live"

\* C2 witness: an ended broadcast of at most 61 seconds was logged as "live".
C2_Witness ==
    \E i \in 1..Len(sheetRecord) :
        /\ EndedBroadcast(RowVideo(i))
        /\ RowDuration(sheetRecord[i]) <= 61
        /\ RowType(sheetRecord[i]) = "live"

\* C3: the row of an eligible video whose live details lack the start or the
\* end timestamp is not typed "live": it is "short" or "video" by duration.
C3_LiveOnlyWhenEnded ==
    \A i \in 1..Len(sheetRecord) :
        (Eligible(RowVideo(i)) /\ ~EndedBroadcast(RowVideo(i)))
            => /\ RowType(sheetRecord[i]) \in {"short", "video"}
               /\ RowType(sheetRecord[i]) = "short"
                      <=> RowDuration(sheetRecord[i]) <= 61

\* C4: the row of a video without live details is "short" exactly when its
\* duration is at most 61 seconds and "video" otherwise; a duration of 1 min
\* 1 s gives "short", 1 min 2 s gives "video".
C4_ShortThreshold ==
    \A i \in 1..Len(sheetRecord) :
        RowVideo(i).liveStreamingDetails = {}
            => /\ RowType(sheetRecord[i]) = "short"
                      <=> RowDuration(sheetRecord[i]) <= 61
               /\ RowType(sheetRecord[i]) = "video"
                      <=> RowDuration(sheetRecord[i]) > 61
               /\ RowVideo(i).duration = <<"P", "T", "1", "M", "1", "S">>
                      => /\ RowDuration(sheetRecord[i]) = 61
                         /\ RowType(sheetRecord[i]) = "short"
               /\ RowVideo(i).duration = <<"P", "T", "1", "M", "2", "S">>
                      => /\ RowDuration(sheetRecord[i]) = 62
                         /\ RowType(sheetRecord[i]) = "video"

\* C4 witness: the sheet holds a 61-second "short" and a 62-second "video".
C4_Witness ==
    /\ \E i \in 1..Len(sheetRecord) :
          /\ RowVideo(i).liveStreamingDetails = {}
          /\ RowDuration(sheetRecord[i]) = 61
          /\ RowType(sheetRecord[i]) = "short"
    /\ \E i \in 1..Len(sheetRecord) :
          /\ RowVideo(i).liveStreamingDetails = {}
          /\ RowDuration(sheetRecord[i]) = 62
          /\ RowType(sheetRecord[i]) = "video"

(***************************************************************************)
(* The duration grammar, stated on its own: "PT", then an optional         *)
(* <digits>H, an optional <digits>M, an optional <digits>S, and nothing    *)
(* else.  s[from..to-1] is one optional part.                              *)
(***************************************************************************)
IsPart(s, from, to, unit) ==
    \/ to = from
    \/ /\ to - from >= 2
       /\ s[to - 1] = unit
       /\ \A i \in from..(to - 2) : IsDigit(s[i])

PartValue(s, from, to) == IF to = from THEN 0 ELSE ToInt(s, from, to - 2)

Splits(s) ==
    { sp \in (3..(Len(s) + 1)) \X (3..(Len(s) + 1)) :
        /\ sp[1] <= sp[2]
        /\ IsPart(s, 3, sp[1], "H")
        /\ IsPart(s, sp[1], sp[2], "M")
        /\ IsPart(s, sp[2], Len(s) + 1, "S") }

WellFormedDuration(s) ==
    /\ s # NoneText
    /\ s # MissingKey
    /\ Len(s) >= 2
    /\ s[1] = "P"
    /\ s[2] = "T"
    /\ Splits(s) # {}

GrammarSeconds(s) ==
    LET sp == CHOOSE x \in Splits(s) : TRUE IN
    PartValue(s, 3, sp[1]) * 3600 + PartValue(s, sp[1], sp[2]) * 60
        + PartValue(s, sp[2], Len(s) + 1)

\* C5: the row of a video without live details whose duration is missing or
\* outside the grammar is not typed "short".
C5_NoDurationNotShort ==
    \A i \in 1..Len(sheetRecord) :
        (RowVideo(i).liveStreamingDetails = {}
            /\ ~WellFormedDuration(RowVideo(i).duration))
            => RowType(sheetRecord[i]) # "short"

\* C6: the parser returns h*3600 + m*60 + s for every text of the grammar and
\* 0 for every other text.
C6_ParserFollowsGrammar ==
    parsed # <<>>
        => parsed[1] = IF WellFormedDuration(duration)
                       THEN GrammarSeconds(duration) ELSE 0

(***************************************************************************)
(* Properties of compute_channel_status.                                   *)
(***************************************************************************)
Snapshot == status[1]

\* The view counts of the collected pairs added up, entry by entry.
TotalOf(stats) ==
    LET F[i \in 0..Len(stats)] ==
            IF i = 0 THEN 0 ELSE F[i - 1] + stats[i].viewCount
    IN  F[Len(stats)]

Abs(x) == IF x < 0 THEN -x ELSE x

\* value (an integer count of 10^-places) is the decimal nearest to num / den.
NearestTo(value, num, den, places) ==
    2 * Abs(value * den - num * Pow10(places)) <= den

\* value (an integer count of 10^-places) is exactly num / den.
ExactlyQuotient(value, num, den, places) ==
    value * den = num * Pow10(places)

\* The sum, the count and the top pair of a window: the top pair has the
\* largest view count and no earlier pair has as many views.
SumCountTop(stats, w) ==
    /\ w.total_views = TotalOf(stats)
    /\ w.num_videos = Len(stats)
    /\ stats # <<>> =>
          \E k \in 1..Len(stats) :
              /\ w.top_views = stats[k].viewCount
              /\ w.top_title = Strip(ReplaceNewlines(stats[k].title))
              /\ \A j \in 1..Len(stats) : stats[j].viewCount <= stats[k].viewCount
              /\ \A j \in 1..(k - 1) : stats[j].viewCount < stats[k].viewCount

\* C7: every video behind a window figure is public, processed and neither
\* live nor upcoming.
C7_WindowVideosEligible ==
    status # <<>> =>
        /\ \A k \in 1..Len(stats_10) : Eligible(videos[stats_10[k].id])
        /\ \A k \in 1..Len(stats_30) : Eligible(videos[stats_30[k].id])

\* C8 as stated: sum, count and first-of-the-largest top pair, and the three
\* quotients equal to top/total, total/count and total/subscribers.
WindowExact(stats, w, subs) ==
    /\ SumCountTop(stats, w)
    /\ w.total_views > 0 => ExactlyQuotient(w.top_share, w.top_views, w.total_views, 4)
    /\ w.num_videos > 0 =>
          ExactlyQuotient(w.avg_views_per_video, w.total_views, w.num_videos, 2)
    /\ subs > 0 => ExactlyQuotient(w.views_per_sub, w.total_views, subs, 5)

C8_WindowAggregationExact ==
    status # <<>> =>
        /\ WindowExact(stats_10, Snapshot.last10, Snapshot.subs)
        /\ WindowExact(stats_30, Snapshot.last30, Snapshot.subs)

\* C8 as amended: sum, count and first-of-the-largest top pair, identically
\* for both windows; top-share is top/total rounded to 4 decimal places, the
\* average total/count rounded to 2 and views-per-subscriber
\* total/subscribers rounded to 5.  Pairs of 100 and 300 views with 1000
\* subscribers give 400, 300, 0.75, 200.0 and 0.4.
WindowRounded(stats, w, subs) ==
    /\ SumCountTop(stats, w)
    /\ w.total_views > 0 => NearestTo(w.top_share, w.top_views, w.total_views, 4)
    /\ w.num_videos > 0 =>
          NearestTo(w.avg_views_per_video, w.total_views, w.num_videos, 2)
    /\ subs > 0 => NearestTo(w.views_per_sub, w.total_views, subs, 5)
    /\ (Len(stats) = 2 /\ stats[1].viewCount = 100 /\ stats[2].viewCount = 300
            /\ subs = 1000)
          => /\ w.total_views = 400
             /\ w.top_views = 300
             /\ w.top_title = Strip(ReplaceNewlines(stats[2].title))
             /\ w.top_share = 7500
             /\ w.avg_views_per_video = 20000
             /\ w.views_per_sub = 40000

C8_WindowAggregationRounded ==
    status # <<>> =>
        /\ WindowRounded(stats_10, Snapshot.last10, Snapshot.subs)
        /\ WindowRounded(stats_30, Snapshot.last30, Snapshot.subs)

\* C8 witness: both windows hold two pairs, and the two pairs of the 30-day
\* window have the same, largest view count.
C8_Witness ==
    /\ status # <<>>
    /\ Len(stats_30) = 2
    /\ stats_30[1].viewCount = stats_30[2].viewCount
    /\ stats_30[1].viewCount > 0
    /\ Len(stats_10) = 2
    /\ Snapshot.subs > 0

\* C9: a window without pairs has total 0, count 0, top title "", top views 0,
\* top-share 0.0, average 0.0 and views-per-subscriber 0.0.
EmptyWindow(w) ==
    /\ w.total_views = 0
    /\ w.num_videos = 0
    /\ w.top_title = <<>>
    /\ w.top_views = 0
    /\ w.top_share = 0
    /\ w.avg_views_per_video = 0
    /\ w.views_per_sub = 0

C9_EmptyWindowDefaults ==
    status # <<>> =>
        /\ stats_10 = <<>> => EmptyWindow(Snapshot.last10)
        /\ stats_30 = <<>> => EmptyWindow(Snapshot.last30)

\* C9 witness: a snapshot whose 10-day window is empty and whose 30-day window
\* is not.
C9_Witness ==
    /\ status # <<>>
    /\ stats_10 = <<>>
    /\ stats_30 # <<>>

\* C10: every ratio whose denominator is zero or undefined is 0.0, and no
\* division raises.
WindowRatiosDefined(w, subs) ==
    /\ w.total_views = 0 => w.top_share = 0
    /\ w.num_videos = 0 => w.avg_views_per_video = 0
    /\ subs = 0 => w.views_per_sub = 0
    /\ DivError \notin {w.top_share, w.avg_views_per_video, w.views_per_sub}

C10_ZeroDenominatorGivesZero ==
    status # <<>> =>
        LET st == Snapshot IN
        /\ (st.months_active = <<>> \/ st.months_active = <<0>>)
              => st.subs_per_month = 0 /\ st.videos_per_month = 0
        /\ st.vids_total = 0
              => /\ st.subs_per_video = 0
                 /\ st.views_per_video = 0
                 /\ st.playlists_per_video = 0
        /\ st.subs = 0 => st.views_per_sub = 0 /\ st.videos_per_subscriber = 0
        /\ st.views_total = 0 => st.subs_per_total_view = 0
        /\ DivError \notin { st.subs_per_month, st.subs_per_video, st.views_per_video,
                             st.views_per_sub, st.subs_per_total_view,
                             st.playlists_per_video, st.videos_per_month,
                             st.videos_per_subscriber }
        /\ WindowRatiosDefined(st.last10, st.subs)
        /\ WindowRatiosDefined(st.last30, st.subs)

\* C10 witness: a channel without subscribers, videos, views or creation date
\* whose 10-day window has views, and a playlist.
C10_Witness ==
    /\ status # <<>>
    /\ Snapshot.subs = 0
    /\ Snapshot.vids_total = 0
    /\ Snapshot.views_total = 0
    /\ Snapshot.months_active = <<>>
    /\ Snapshot.playlist_count > 0
    /\ Snapshot.last10.total_views > 0
    /\ Snapshot.last30.num_videos > 0

(***************************************************************************)
(* Properties of the Status tab.                                           *)
(***************************************************************************)
\* The last message of the last handler.
LastMessage == IF ui = <<>> THEN "" ELSE ui[Len(ui)]

\* The row the last handler appended last.
LastStatusRow == sheetStatus[Len(sheetStatus)]

\* C11: months_active is the number of whole days between now and the
\* creation timestamp, divided by 30 and rounded to 2 decimal places, and is
\* None (an empty cell of the row) when the timestamp is missing or cannot
\* be parsed; subs_per_month is subscribers / months_active rounded to 2
\* places.  A channel created 60 days ago with 120 subscribers has
\* months_active 2.0 and subs_per_month 60.0.
C11_MonthsActive ==
    status # <<>> =>
        LET created == chan.publishedAt
            days == Now - created.instant
        IN  /\ created.kind = "date" =>
                /\ Snapshot.months_active # <<>>
                /\ NearestTo(Snapshot.months_active[1], days, 30, 2)
                /\ Snapshot.months_active[1] > 0 =>
                       NearestTo(Snapshot.subs_per_month, Snapshot.subs * 100,
                                 Snapshot.months_active[1], 2)
                /\ (days = 60 /\ Snapshot.subs = 120) =>
                       /\ Snapshot.months_active = <<200>>
                       /\ Snapshot.subs_per_month = 6000
            /\ created.kind # "date" => Snapshot.months_active = <<>>
            /\ LastMessage = "success:status" =>
                   LastStatusRow[8] = IF created.kind = "date"
                                      THEN Num(Snapshot.months_active[1])
                                      ELSE Text(<<>>)

\* C11 witness: the row of a channel created 20 days ago (2/3 of a month,
\* which two decimal places cannot hold) with 120 subscribers is on the sheet.
C11_Witness ==
    /\ status # <<>>
    /\ LastMessage = "success:status"
    /\ chan.publishedAt = [kind |-> "date", instant |-> Now - 20]
    /\ chan.subscriberCount = 120
    /\ LastStatusRow[8] = Num(67)

(***************************************************************************)
(* Properties of the playlist slots of a snapshot.                         *)
(***************************************************************************)
\* A slot that holds no playlist of the source.
IsPlaceholder(slot) == "playlistId" \notin DOMAIN slot

\* The place in the collected list of the playlist that slot i holds.
PlaceOf(i) ==
    CHOOSE k \in 1..Len(playlists_meta) :
        playlists_meta[k].playlistId = Snapshot.top5_playlists[i].playlistId

\* C12: whatever the number of playlists, the snapshot has exactly 5 slots;
\* the first min(n, 5) hold playlists of the list, in descending order of item
\* count and, for equal counts, in the order of the list; no playlist left
\* out has more items than one that is in, nor as many while standing
\* earlier in the list; the remaining slots are placeholders.
C12_TopFivePlaylists ==
    status # <<>> =>
        LET top == Snapshot.top5_playlists
            n == Min(Len(playlists_meta), TopPlaylists)
        IN  /\ Len(top) = 5
            /\ \A i \in 1..n :
                   /\ ~IsPlaceholder(top[i])
                   /\ \E k \in 1..Len(playlists_meta) : playlists_meta[k] = top[i]
            /\ \A i, j \in 1..n :
                   i < j => \/ top[i].itemCount > top[j].itemCount
                            \/ /\ top[i].itemCount = top[j].itemCount
                               /\ PlaceOf(i) < PlaceOf(j)
            /\ \A k \in 1..Len(playlists_meta) :
                   (\A i \in 1..n : PlaceOf(i) # k) =>
                       \A i \in 1..n :
                           \/ playlists_meta[k].itemCount < top[i].itemCount
                           \/ /\ playlists_meta[k].itemCount = top[i].itemCount
                              /\ PlaceOf(i) < k
            /\ \A i \in (n + 1)..5 : IsPlaceholder(top[i])
            /\ Len(playlists_meta) = 2 =>
                   \A i \in 3..5 : IsPlaceholder(top[i])

\* C12 witness: seven playlists were collected, and two of equal item count
\* compete for the last slot.
C12_Witness ==
    /\ status # <<>>
    /\ Len(playlists_meta) = 7
    /\ \E k \in 1..7 :
           /\ PlaceOf(5) < k
           /\ playlists_meta[k].itemCount = Snapshot.top5_playlists[5].itemCount

\* C13: the slots that pad the list have an empty title and a zero item
\* count.
C13_PlaceholderEmptyTitle ==
    status # <<>> =>
        \A i \in 1..5 :
            IsPlaceholder(Snapshot.top5_playlists[i]) =>
                /\ Snapshot.top5_playlists[i].title = <<>>
                /\ Snapshot.top5_playlists[i].itemCount = 0

(***************************************************************************)
(* Properties of the handlers that compute channel statuses.               *)
(***************************************************************************)
\* The request of get_channel_basic.
IsBasicRequest(r) ==
    r.method = "channels.list" /\ r.part = "snippet,statistics,contentDetails"

\* The request brought no channel: it raised or returned no item.
BroughtNothing(r) == r.outcome = "raise" \/ r.returned = 0

Reported(message, messages) == \E i \in 1..Len(messages) : messages[i] = message

\* The channels of the get_channel_basic requests of a log, in order, and
\* those among them that brought a channel.
BasicChannels(log) ==
    LET basics == SelectSeq(log, IsBasicRequest)
    IN  [i \in 1..Len(basics) |-> basics[i].id[1]]

SnapshotChannels(log) ==
    LET got == SelectSeq(log, LAMBDA r : IsBasicRequest(r) /\ ~BroughtNothing(r))
    IN  [i \in 1..Len(got) |-> got[i].id[1]]

\* The channels of the rows that a step appended to the Status sheet.
AppendedChannels ==
    [ i \in 1..(Len(sheetStatus') - Len(sheetStatus)) |->
        sheetStatus'[Len(sheetStatus) + i][2].text ]

\* C14: a get_channel_basic request that raises or returns no item is
\* followed by no playlist, search or statistics request for that channel
\* (the next request, if any, is the basic info of the next channel); the
\* rows a handler appends are those of the channels whose basic info came,
\* in order, and none at all for the TXT analysis; no channel is asked for
\* twice; the routine asks for each of its channels and the batch update for
\* each of the targets it picked, whichever of them failed.
C14_NoSnapshotNoRow ==
    [][ /\ \A i \in 1..Len(requests') :
               (IsBasicRequest(requests'[i]) /\ BroughtNothing(requests'[i])) =>
                   (i = Len(requests') \/ IsBasicRequest(requests'[i + 1]))
        /\ Len(sheetStatus') >= Len(sheetStatus)
        /\ SubSeq(sheetStatus', 1, Len(sheetStatus)) = sheetStatus
        /\ AppendedChannels =
               IF Reported("text:summary", ui') THEN <<>>
               ELSE SnapshotChannels(requests')
        /\ \A i, j \in 1..Len(BasicChannels(requests')) :
               i # j => BasicChannels(requests')[i] # BasicChannels(requests')[j]
        /\ Reported("success:routine", ui') =>
               BasicChannels(requests') = ROUTINE_STATUS_CHANNEL_IDS
        /\ Reported("success:batch", ui') =>
               Len(BasicChannels(requests')) =
                   Min(batch_limit, Len(read_search_targets(sheetSearchTarget')))
      ]_vars

\* C14 witness: the routine got no basic info for its first channel, went
\* on to the second and appended the row of the second only.
C14_Witness ==
    /\ Reported("success:routine", ui)
    /\ Reported("warning:status failed", ui)
    /\ \E i \in 1..Len(requests) :
           /\ IsBasicRequest(requests[i]) /\ BroughtNothing(requests[i])
           /\ requests[i].id = <<"UC1">>
    /\ sheetStatus # <<>>
    /\ LastStatusRow[2] = Text("UC2")


(***************************************************************************)
(* Properties of the paginated collectors and of the statistics batches.   *)
(***************************************************************************)
IsCallOf(fn) == asked # <<>> /\ asked.fn = fn

\* The page requests of the upload list, in the order they were sent.
UploadPages == SelectSeq(requests, LAMBDA r : r.method = "playlistItems.list")

\* The number of entries the first k of the pages brought.
Accumulated(pages, k) ==
    Cardinality(UNION { {<<j, i>> : i \in 1..pages[j].returned} : j \in 1..k })

\* The source put no more entries on any page than the request asked for.
HonoursPageSize(pages) ==
    \A k \in 1..Len(pages) : pages[k].returned <= pages[k].maxResults

\* C15: in fetch_channel_upload_items the first page request carries no
\* token and every later one the token of the response before it; each
\* request asks for min(50, remaining) entries; a further page is requested
\* only while fewer ids than the target min(max_results, 50) are accumulated
\* and the last response carried a token, and the loop that was not
\* interrupted by a failure ends with the target reached or with a response
\* without token; if the source honours the page size, the ids accumulated
\* never exceed the target; the returned list has at most min(max_results,
\* 50) items.
C15_UploadPagination ==
    IsCallOf("fetch_channel_upload_items") =>
        LET pages == UploadPages
            target == Min(asked.max_results, PageMax)
            last == Len(pages)
        IN  /\ \A k \in 1..last :
                   /\ pages[k].pageToken =
                          IF k = 1 THEN 0 ELSE pages[k - 1].nextPageToken
                   /\ pages[k].maxResults =
                          Min(PageMax, target - Accumulated(pages, k - 1))
                   /\ k < last =>
                          /\ Accumulated(pages, k) < target
                          /\ pages[k].nextPageToken # 0
            /\ (last > 0 /\ pages[last].outcome = "ok") =>
                   \/ Accumulated(pages, last) >= target
                   \/ pages[last].nextPageToken = 0
            /\ Len(video_ids) = Accumulated(pages, last)
            /\ HonoursPageSize(pages) => Len(video_ids) <= target
            /\ Len(record_items) <= target

\* C15 witness: three pages of one id each were needed to reach a target of
\* three, and the source had more to give.
C15_Witness ==
    /\ IsCallOf("fetch_channel_upload_items")
    /\ Len(UploadPages) = 3
    /\ \A k \in 1..3 : UploadPages[k].outcome = "ok" /\ UploadPages[k].nextPageToken # 0
    /\ UploadPages[2].maxResults = 2
    /\ Len(video_ids) = 3
    /\ asked.max_results = 3


\* The page requests of a call of get_playlists_meta or of
\* search_video_ids_published_after are all its requests.
LastRaised(log) == log # <<>> /\ log[Len(log)].outcome = "raise"

\* What fetch_channel_upload_items makes of a list of video ids that it
\* collected without failure (lines 566-600).
ItemsOfIds(ids, max_results) ==
    LET filtered_sorted == SortByPublishedAt(FilterItems(VideosList(ids, FALSE).items))
    IN  SubSeq(filtered_sorted, 1, Min(max_results, Len(filtered_sorted)))

\* C16: when the request for page k of a paginated collector fails after
\* pages 1..k-1 succeeded, the failed request is the last one and the result
\* is what pages 1..k-1 brought: for the upload list the items of the ids
\* accumulated, for the playlists and the search the entries accumulated.
C16_FailedPageKeepsEarlierPages ==
    /\ (IsCallOf("fetch_channel_upload_items") /\ LastRaised(UploadPages)
            /\ requests[Len(requests)].method = "playlistItems.list") =>
           /\ \A k \in 1..(Len(UploadPages) - 1) : UploadPages[k].outcome = "ok"
           /\ video_ids = SubSeq(uploads, 1, Accumulated(UploadPages, Len(UploadPages) - 1))
           /\ record_items = ItemsOfIds(video_ids, Min(asked.max_results, PageMax))
    /\ (IsCallOf("get_playlists_meta") /\ LastRaised(requests)) =>
           /\ \A k \in 1..(Len(requests) - 1) : requests[k].outcome = "ok"
           /\ playlists_meta = SubSeq(playlists, 1, Accumulated(requests, Len(requests) - 1))
    /\ (IsCallOf("search_video_ids_published_after") /\ LastRaised(requests)) =>
           /\ \A k \in 1..(Len(requests) - 1) : requests[k].outcome = "ok"
           /\ video_ids = SubSeq(asked.hits, 1, Accumulated(requests, Len(requests) - 1))
    /\ (asked # <<>> /\ asked.fn \in {"fetch_channel_upload_items", "get_playlists_meta",
                                       "search_video_ids_published_after"}) =>
           \A k \in 1..(Len(requests) - 1) :
               requests[k].outcome = "raise" => requests[k].method = "channels.list"

\* The number of requests of a log that raised.
Raised(log) == Len(SelectSeq(log, LAMBDA r : r.outcome = "raise"))

\* C17: every request of a collector that failed is reported to the
\* operator: the call gave as many warnings as it had failed requests.
C17_EveryFailureReported ==
    asked # <<>> => Len(ui) = Raised(requests)


\* The number of chunks of at most PageMax ids that a list of n ids makes.
ChunkCount(n) == (n + PageMax - 1) \div PageMax

\* The chunk that holds position i of the id list.
ChunkOf(i) == ((i - 1) \div PageMax) + 1

\* The ids of the list that the source knows and whose chunk did not fail,
\* in the order of the list.
IdsOfSuccessfulChunks(ids, failChunks) ==
    LET positions == SelectSeq([i \in 1..Len(ids) |-> i],
                               LAMBDA i : /\ ids[i] \in DOMAIN videos
                                          /\ ChunkOf(i) \notin failChunks)
    IN  [k \in 1..Len(positions) |-> ids[positions[k]]]

\* C19: get_videos_stats and fetch_comment_counts send one request per
\* chunk; chunk c holds the ids at positions 50(c-1)+1 .. 50c of the list
\* (the last chunk what is left), so that the chunks have at most 50 ids
\* each and, put end to end, give the list; a chunk whose request failed is
\* followed by the requests of all later chunks; the result holds exactly
\* the ids that the successful chunks returned.
C19_StatisticsBatches ==
    (IsCallOf("get_videos_stats") \/ IsCallOf("fetch_comment_counts")) =>
        LET ids == asked.ids
            n == ChunkCount(Len(ids))
        IN  /\ Len(requests) = n
            /\ \A c \in 1..n :
                   /\ requests[c].id =
                          SubSeq(ids, PageMax * (c - 1) + 1, Min(PageMax * c, Len(ids)))
                   /\ Len(requests[c].id) \in 1..PageMax
                   /\ requests[c].outcome = "raise" <=> c \in asked.failChunks
            /\ [k \in 1..Len(counts) |-> counts[k].id] =
                   IdsOfSuccessfulChunks(ids, asked.failChunks)
            /\ Len(ui) = Cardinality(asked.failChunks \cap 1..n)

\* C19 witness: of three chunks the second failed, and the result of
\* get_videos_stats holds ids of the first and of the third.
C19_Witness ==
    /\ IsCallOf("get_videos_stats")
    /\ Len(requests) = 3
    /\ requests[2].outcome = "raise"
    /\ requests[3].outcome = "ok"
    /\ Len(requests[1].id) = PageMax
    /\ \E k \in 1..Len(counts) : counts[k].id = requests[3].id[1]
    /\ \E k \in 1..Len(counts) : counts[k].id = requests[1].id[1]
    /\ \A k \in 1..Len(counts) :
           \A j \in 1..Len(requests[2].id) : counts[k].id # requests[2].id[j]


(***************************************************************************)
(* Properties of the sub-queries of compute_channel_status.                *)
(***************************************************************************)
IsSearch(r, days) == r.method = "search.list" /\ r.publishedAfter = <<Now - days>>

IsStats(r) == r.method = "videos.list" /\ r.part = "snippet,statistics"

\* The search brought at least one id.
Found(r) == r.outcome = "ok" /\ r.returned > 0

\* C18: once the basic info of the channel came, compute_channel_status
\* returns a snapshot whatever fails afterwards, and its requests are, in
\* this order and with nothing between or after them: the basic info, the
\* playlists, the 10-day search, the 10-day statistics (if the search found
\* ids), the 30-day search, the 30-day statistics (if the search found ids);
\* each of them is sent once, whether it failed or not.
C18_FailedSubQueryIsLocal ==
    (requests # <<>> /\ IsBasicRequest(requests[1]) /\ ~BroughtNothing(requests[1])) =>
        /\ status # <<>>
        /\ Len(requests) >= 4
        /\ requests[2].method = "playlists.list"
        /\ IsSearch(requests[3], 10)
        /\ LET search30 == IF Found(requests[3]) THEN 5 ELSE 4 IN
           /\ Found(requests[3]) =>
                  IsStats(requests[4]) /\ Len(requests[4].id) = requests[3].returned
           /\ Len(requests) >= search30
           /\ IsSearch(requests[search30], 30)
           /\ Len(requests) = search30 + (IF Found(requests[search30]) THEN 1 ELSE 0)
           /\ Found(requests[search30]) =>
                  /\ IsStats(requests[search30 + 1])
                  /\ Len(requests[search30 + 1].id) = requests[search30].returned

\* C18 witness: the 10-day search failed, and the 30-day search and the
\* 30-day statistics were still asked for and the snapshot returned.
C18_Witness ==
    /\ status # <<>>
    /\ Len(requests) = 5
    /\ IsSearch(requests[3], 10) /\ requests[3].outcome = "raise"
    /\ IsSearch(requests[4], 30) /\ Found(requests[4])
    /\ IsStats(requests[5]) /\ requests[5].outcome = "ok"
    /\ Snapshot.last30.num_videos > 0


(***************************************************************************)
(* Properties of the handlers that resolve the operator's input.           *)
(***************************************************************************)
\* The channel search of resolve_channel_id_simple.
IsResolverSearch(r) == r.method = "search.list" /\ r.part = "id,snippet"

UnresolvedReported(messages) ==
    messages = <<"error:unresolved channel">> \/ messages = <<"error:unresolved video">>

IsBlank(c) == c \in {" ", "\n"}

\* The positions of the raw title that are not blank.
InkOf(raw) == {i \in 1..Len(raw) : ~IsBlank(raw[i])}

FirstInk(raw) == CHOOSE i \in InkOf(raw) : \A j \in InkOf(raw) : i <= j
LastInk(raw) == CHOOSE i \in InkOf(raw) : \A j \in InkOf(raw) : j <= i

\* Where character i of the raw title lands in the cell.
LandsAt(raw, i) ==
    i - FirstInk(raw) + 1
      + Cardinality({j \in FirstInk(raw)..(i - 1) : raw[j] = "\""})

TitleFormatted(raw, cell) ==
    /\ \A k \in 1..Len(cell) : cell[k] # "\n"
    /\ IF InkOf(raw) = {} THEN cell = <<>>
       ELSE /\ Len(cell) = LandsAt(raw, LastInk(raw) + 1) - 1
            /\ \A i \in FirstInk(raw)..LastInk(raw) :
                  IF raw[i] = "\n" THEN cell[LandsAt(raw, i)] = " "
                  ELSE IF raw[i] = "\""
                       THEN /\ cell[LandsAt(raw, i)] = "\""
                            /\ cell[LandsAt(raw, i) + 1] = "\""
                  ELSE cell[LandsAt(raw, i)] = raw[i]

C22_TitleFormatting ==
    sheetRecord # <<>> =>
        /\ sheetRecord[1][3].url = videos["v1"].id
        /\ TitleFormatted(videos["v1"].title, sheetRecord[1][3].text)

C22_Witness ==
    /\ sheetRecord # <<>>
    /\ videos["v1"].title = <<"\"", "\n", "\"", " ">>
    /\ sheetRecord[1][3].text = <<"\"", "\"", " ", "\"", "\"">>

(***************************************************************************)
(* C23: no free-text title of a Status row holds a newline: the channel    *)
(* title (column 3), the five playlist columns (17 to 21) and the two      *)
(* top-video titles (columns 24 and 31).                                   *)
(***************************************************************************)
TitleColumns == {3, 24, 31} \cup (17..21)

NoNewline(t) == \A k \in 1..Len(t) : t[k] # "\n"

C23_NoNewlineInTitles ==
    status # <<>> =>
        \A i \in TitleColumns : NoNewline(build_status_row(status[1])[i].text)

(***************************************************************************)
(* C24: a Status row has one value per STATUS_HEADER column, 35 in all, in *)
(* the order of the header: identity, cumulative figures, the five         *)
(* playlist slots, the 10-day block and the 30-day block; a Record row has *)
(* the 8 values of RECORD_HEADER in its order, the comment count being the *)
(* empty cell when the source gave none.                                   *)
(***************************************************************************)
RecordCol(name) == CHOOSE i \in 1..Len(RECORD_HEADER) : RECORD_HEADER[i] = name
StatusCol(name) == CHOOSE i \in 1..Len(STATUS_HEADER) : STATUS_HEADER[i] = name

RecordRowUnderHeader(row, item) ==
    /\ Len(row) = Len(RECORD_HEADER)
    /\ Len(row) = 8
    /\ row[RecordCol("logged_at")] = LoggedAt
    /\ row[RecordCol("type")] \in {"video", "live", "short"}
    /\ row[RecordCol("title")].url = item.id
    /\ row[RecordCol("published_at")] = <<item.publishedAt>>
    /\ row[RecordCol("duration_sec")] = parse_iso8601_duration(item.duration)
    /\ row[RecordCol("view_count")] = item.viewCount
    /\ row[RecordCol("like_count")] = item.likeCount
    /\ row[RecordCol("comment_count")] = item.commentCount

WindowUnderHeader(row, w, days) ==
    /\ row[StatusCol("total_views_last" \o days)] = Num(w.total_views)
    /\ row[StatusCol("num_videos_last" \o days)] = Num(w.num_videos)
    /\ row[StatusCol("top_title_last" \o days)] = Text(w.top_title)
    /\ row[StatusCol("top_views_last" \o days)] = Num(w.top_views)
    /\ row[StatusCol("top_share_last" \o days)] = Num(w.top_share)
    /\ row[StatusCol("avg_views_per_video_last" \o days)] = Num(w.avg_views_per_video)
    /\ row[StatusCol("views_per_sub_last" \o days)] = Num(w.views_per_sub)

StatusRowUnderHeader(row, st) ==
    /\ Len(row) = Len(STATUS_HEADER)
    /\ Len(row) = StatusColumns
    /\ row[StatusCol("logged_at")] = DateCell(st.data_date_str)
    /\ row[StatusCol("channel_id")] = Text(st.channel_id)
    /\ row[StatusCol("channel_title")] = Text(st.channel_title)
    /\ row[StatusCol("subscriber_count")] = Num(st.subs)
    /\ row[StatusCol("video_count")] = Num(st.vids_total)
    /\ row[StatusCol("view_count")] = Num(st.views_total)
    /\ row[StatusCol("channel_published_at")] =
           (IF st.channel_published_str = <<>> THEN Text(<<>>)
            ELSE DateCell(st.channel_published_str[1]))
    /\ row[StatusCol("months_active")] =
           (IF st.months_active = <<>> THEN Text(<<>>)
            ELSE Num(st.months_active[1]))
    /\ row[StatusCol("subs_per_month")] = Num(st.subs_per_month)
    /\ row[StatusCol("subs_per_video")] = Num(st.subs_per_video)
    /\ row[StatusCol("views_per_video")] = Num(st.views_per_video)
    /\ row[StatusCol("views_per_sub")] = Num(st.views_per_sub)
    /\ row[StatusCol("subs_per_total_view")] = Num(st.subs_per_total_view)
    /\ row[StatusCol("playlists_per_video")] = Num(st.playlists_per_video)
    /\ row[StatusCol("videos_per_month")] = Num(st.videos_per_month)
    /\ row[StatusCol("videos_per_subscriber")] = Num(st.videos_per_subscriber)
    /\ row[StatusCol("top_playlist_1")] = st.playlist_cols[1]
    /\ row[StatusCol("top_playlist_2")] = st.playlist_cols[2]
    /\ row[StatusCol("top_playlist_3")] = st.playlist_cols[3]
    /\ row[StatusCol("top_playlist_4")] = st.playlist_cols[4]
    /\ row[StatusCol("top_playlist_5")] = st.playlist_cols[5]
    /\ WindowUnderHeader(row, st.last10, "10")
    /\ WindowUnderHeader(row, st.last30, "30")

\* The rows the last Record handler appended, one per item it fetched.
LastRecordRow(k) == sheetRecord[Len(sheetRecord) - Len(record_items) + k]

C24_RowsFollowHeaders ==
    /\ \A k \in 1..Len(record_items) :
           RecordRowUnderHeader(LastRecordRow(k), record_items[k])
    /\ LastMessage = "success:status" =>
           StatusRowUnderHeader(LastStatusRow, status[1])

C24_Witness ==
    /\ LastMessage = "success:status"
    /\ Len(LastStatusRow) = 35
    /\ Len(record_items) = 2
    /\ LastRecordRow(1)[RecordCol("comment_count")] = <<>>
    /\ LastRecordRow(2)[RecordCol("comment_count")] = <<4>>

(***************************************************************************)
(* C26: the batch update processes the targets in staleness order: the     *)
(* channels without a readable date on the Status sheet first, the others  *)
(* by the latest date of their rows, oldest first, targets of equal        *)
(* staleness in the order of the search-target sheet; it processes the     *)
(* first batch_limit of them only and appends the rows of the snapshots in *)
(* that order.                                                             *)
(***************************************************************************)
\* The readable dates of the Status rows of a channel.
DatesOf(channel_id) ==
    { sheetStatus[k][1].date :
        k \in { i \in 1..Len(sheetStatus) :
                  /\ sheetStatus[i][2].text = channel_id
                  /\ "date" \in DOMAIN sheetStatus[i][1] } }

LatestDateOf(channel_id) ==
    CHOOSE d \in DatesOf(channel_id) : \A e \in DatesOf(channel_id) : e <= d

\* Channel a is strictly staler than channel b.
Staler(a, b) ==
    \/ DatesOf(a) = {} /\ DatesOf(b) # {}
    \/ /\ DatesOf(a) # {} /\ DatesOf(b) # {}
       /\ LatestDateOf(a) < LatestDateOf(b)

\* The rows of the search-target sheet that name a channel.
TargetRows == {i \in 1..Len(sheetSearchTarget) : sheetSearchTarget[i][1] # ""}

TargetOf(i) == sheetSearchTarget[i][1]

\* The place of the target of row i in the staleness order.
PlaceInBatch(i) ==
    1 + Cardinality({ j \in TargetRows :
                        \/ Staler(TargetOf(j), TargetOf(i))
                        \/ ~Staler(TargetOf(i), TargetOf(j)) /\ j < i })

C26_BatchInStalenessOrder ==
    [][ Reported("success:batch", ui') =>
            /\ Len(BasicChannels(requests')) =
                   Min(batch_limit, Cardinality(TargetRows))
            /\ \A i \in TargetRows :
                   PlaceInBatch(i) <= batch_limit =>
                       BasicChannels(requests')[PlaceInBatch(i)] = TargetOf(i)
            /\ AppendedChannels = SnapshotChannels(requests')
      ]_vars

\* C26 witness: "UC1" has rows dated 2 and 9 days ago and "UC2" one dated 5
\* days ago; the batch asked for "UC2" first although "UC1" comes first on
\* the search-target sheet.
C26_Witness ==
    /\ Reported("success:batch", ui)
    /\ BasicChannels(requests) = <<"UC2", "UC1">>
    /\ Len(sheetStatus) = 3
    /\ sheetStatus[1][1] = DateCell(Now - 2)
    /\ sheetStatus[3][1] = DateCell(Now - 9)
    /\ sheetSearchTarget[1][1] = "UC1"

(***************************************************************************)
(* C28: the comment refresh changes nothing but column H (8) of the Record *)
(* rows whose title cell yields a video id for which the source returned a *)
(* comment count: every other cell and row stays as it was, no row is      *)
(* added or removed, and the number it returns is the number of cells it   *)
(* wrote; on a sheet without data rows it returns 0 and asks for nothing.  *)
(***************************************************************************)
\* The id that the title cell of row k yielded to the refresh.
YieldedId(k) ==
    extract_video_id_from_title_cell(ReadTitleCell(sheetRecord[k][3], asked'.render))

\* The source answered a request of the refresh that named the video.
CountReturned(video_id) ==
    /\ video_id \in DOMAIN videos
    /\ \E i \in 1..Len(requests') :
           /\ requests'[i].outcome = "ok"
           /\ \E j \in 1..Len(requests'[i].id) : requests'[i].id[j] = video_id

RefreshedRows ==
    { k \in 1..Len(sheetRecord) :
        ~Falsy(YieldedId(k)) /\ CountReturned(YieldedId(k)[1]) }

\* The comment count of a video as the refresh writes it.
CountText(video_id) ==
    IF videos[video_id].commentCount = <<>> THEN <<>>
    ELSE Str(videos[video_id].commentCount[1])

C28_RefreshWritesColumnH ==
    [][ Reported("success:refresh", ui') =>
            /\ Len(sheetRecord') = Len(sheetRecord)
            /\ \A k \in 1..Len(sheetRecord) :
                   IF k \in RefreshedRows
                   THEN /\ Len(sheetRecord'[k]) = Len(sheetRecord[k])
                        /\ \A c \in 1..7 : sheetRecord'[k][c] = sheetRecord[k][c]
                        /\ sheetRecord'[k][8] = CountText(YieldedId(k)[1])
                   ELSE sheetRecord'[k] = sheetRecord[k]
            /\ updated_count' = <<Cardinality(RefreshedRows)>>
            /\ sheetRecord = <<>> => requests' = <<>> /\ updated_count' = <<0>>
      ]_vars

\* C28 witness: a sheet of three rows of which the refresh wrote two; the
\* row of a video the source does not know kept its "9".
C28_Witness ==
    /\ updated_count = <<2>>
    /\ Len(sheetRecord) = 3
    /\ sheetRecord[1][3] = [plain |-> "v1"] /\ sheetRecord[1][8] = <<"4">>
    /\ sheetRecord[2][3] = [plain |-> "v0"] /\ sheetRecord[2][8] = <<"9">>
    /\ "url" \in DOMAIN sheetRecord[3][3] /\ sheetRecord[3][8] = <<"1", "2">>

(***************************************************************************)
(* C21: the Status sheet is append-only under every handler: a step leaves *)
(* the rows it found as they were and where they were, and what it adds    *)
(* are whole rows at the end, dated today, one for each snapshot that the  *)
(* routine, status_btn or the batch update computed, in the order they     *)
(* were computed; the TXT analysis, the Record handlers and the comment    *)
(* refresh add none.                                                       *)
(***************************************************************************)
\* The rows a step added at the end of the Status sheet.
AppendedRows == SubSeq(sheetStatus', Len(sheetStatus) + 1, Len(sheetStatus'))

AppendsToStatus ==
    \/ Reported("success:routine", ui')
    \/ Reported("success:status", ui')
    \/ Reported("success:batch", ui')

Endpoints ==
    {"channels.list", "playlistItems.list", "videos.list", "search.list",
     "playlists.list"}

\* The number of requests of a log sent to an endpoint.
CallsTo(endpoint, log) ==
    Cardinality({i \in 1..Len(log) : log[i].method = endpoint})

FigureOf(usage, endpoint) ==
    IF endpoint \in DOMAIN usage.by_endpoint THEN usage.by_endpoint[endpoint] ELSE 0

UnitsOf(endpoint) == IF endpoint = "search.list" THEN 100 ELSE 1

C25_CounterOnlyGrows ==
    [][ IF Reported("info:quota reset", ui')
        THEN quota_usage'.total = 0 /\ \A e \in Endpoints : FigureOf(quota_usage', e) = 0
        ELSE /\ \A i \in 1..Len(requests') : requests'[i].method \in Endpoints
             /\ \A e \in Endpoints :
                    /\ FigureOf(quota_usage', e) =
                           FigureOf(quota_usage, e) + UnitsOf(e) * CallsTo(e, requests')
                    /\ FigureOf(quota_usage', e) >= FigureOf(quota_usage, e)
             /\ quota_usage'.total =
                    quota_usage.total
                      + CallsTo("channels.list", requests')
                      + CallsTo("playlistItems.list", requests')
                      + CallsTo("videos.list", requests')
                      + CallsTo("playlists.list", requests')
                      + 100 * CallsTo("search.list", requests')
             /\ quota_usage'.total >= quota_usage.total
      ]_vars

\* C25 witness: the connection check failed after an analysis, and its
\* request was counted with the six of the analysis.
C25_Witness ==
    /\ Reported("error:api check", ui)
    /\ quota_usage.total = 205
    /\ FigureOf(quota_usage, "search.list") = 200
    /\ FigureOf(quota_usage, "videos.list") = 3

(***************************************************************************)
(* C27: each of the three loops is left once the source returns a page     *)
(* without a continuation token (or raises), so it is left whenever the    *)
(* source has such a page; up to there it asks for every page with the     *)
(* token of the page before, however few entries the pages held, and keeps *)
(* the entries of all of them; the upload-list loop is also left, without  *)
(* a further request, once it holds as many entries as it was asked for,   *)
(* even if every page of the source comes with a token.                    *)
(***************************************************************************)
\* The source has a page that ends a loop.
SourceEnds ==
    \E p \in 1..Len(asked.source) :
        ~asked.source[p].more \/ asked.source[p].raises

LoopIsLeft == asked.pc = "left"

TargetReached == asked.fn = "upload" /\ Len(video_ids) >= asked.max_results

\* Request k + 1 carries the token that came with page k, and page k is
\* page number k of the source.
FollowsTokens ==
    \A k \in 1..Len(requests) :
        /\ requests[k].pageToken = (IF k = 1 THEN 0 ELSE k)
        /\ k < Len(requests) => requests[k].nextPageToken = k + 1

\* The entries of the pages received so far, short and empty ones included.
EntriesReceived ==
    Cardinality(UNION { {<<k, j>> : j \in 1..requests[k].returned} :
                          k \in 1..Len(requests) })

KeepsEveryPage ==
    (requests # <<>> /\ requests[Len(requests)].outcome = "ok") =>
        Len(video_ids) = EntriesReceived

C27_LoopsTerminate ==
    /\ [](FollowsTokens /\ KeepsEveryPage)
    /\ [][TargetReached => (asked'.pc = "left" /\ requests' = requests)]_vars
    /\ SourceEnds ~> LoopIsLeft
    /\ TargetReached ~> LoopIsLeft

\* C27 witness: the playlists loop was left at the third page, after an
\* empty page and a page of one entry that both came with a token.
C27_Witness ==
    /\ asked.fn = "playlists"
    /\ LoopIsLeft
    /\ Len(requests) = 3
    /\ requests[1].returned = 0 /\ requests[1].nextPageToken = 2
    /\ requests[2].returned = 1 /\ requests[2].nextPageToken = 3
    /\ requests[3].outcome = "ok" /\ requests[3].nextPageToken = 0
    /\ Len(video_ids) = 1 + requests[3].returned

=============================================================================
